---------------------------- MODULE Spec2Model ----------------------------
(***************************************************************************)
(* Candidate Retrieval & Ranking Engine of the ATS system ("Final          *)
(* Version").  The module models                                           *)
(*   - DualLevelRetrieval.query_with_mode / query_with_fallback            *)
(*     (the Retrieval Fallback Controller),                                *)
(*   - DualLevelRetrieval.dual_level_query and chat_with_dual_retrieval    *)
(*     (the conversational path),                                          *)
(*   - validate_grounded_response (the Grounding Validator),               *)
(*   - parse_reranked_to_candidates and its text extractors                *)
(*     (the Evidence Filter),                                              *)
(*   - BM25Index and hybrid_search (the Lexical Index and Score Fusion),   *)
(*   - EntityResolver.resolve_skill (the Entity Canonicalizer).            *)
(* Spec is the conversational service; ValidatorSpec, FilterSpec,          *)
(* LexicalSpec, HybridSpec, ParallelSpec and ResolverSpec each call one    *)
(* of the other components with arguments drawn from bounded sets.         *)
(* Texts are strings; a character is a string of length one.               *)
(***************************************************************************)
EXTENDS Integers, Sequences, FiniteSets, TLC

VARIABLES
    fb_pc,            \* position of query_with_fallback: idle | loop | done | raised
    preferred_mode,   \* argument preferred_mode of query_with_fallback
    fallback_chain,   \* local fallback_chain
    mode_idx,         \* position of the for loop in fallback_chain
    sources,          \* local sources = {"attempted_modes": [], "errors": []}
    rag_result,       \* the RetrievalResult returned by query_with_fallback
    backend_calls,    \* what rag.aquery(mode=...) was asked and answered, in order
    chat_pc,          \* position of chat_with_dual_retrieval
    chat_mode,        \* argument mode of chat_with_dual_retrieval
    candidates,       \* argument candidates of chat_with_dual_retrieval
    raw_context,      \* local raw_context
    grounded_response,\* local grounded_response (the LLM's answer)
    validated,        \* answers handed to validate_grounded_response in this call
    chat_result,      \* the dict returned by chat_with_dual_retrieval
    val_response,     \* argument response of a validate_grounded_response call
    val_context,      \* argument context of that call
    val_result,       \* the dict that call returned
    pr_pc,            \* position of a parse_reranked_to_candidates call
    pr_reranked,      \* argument reranked of that call
    pr_top_k,         \* argument top_k
    pr_job_query,     \* argument job_query
    pr_hash_seed,     \* the hash seed of the process (order of set iteration)
    pr_result,        \* the list that call returned
    bm25_index,       \* the fields of the global BM25Index (_bm25_index)
    bm_last,          \* the last direct BM25Index.search call and its result
    hs_pc,            \* position of each hybrid_search call
    hs_args,          \* arguments of each hybrid_search call
    hs_bm25_results,  \* local bm25_results of each call
    hs_searched,      \* the documents the index held when each call searched
    hs_results,       \* the list each call returned
    resolver,         \* the settings of the EntityResolver
    rs_last,          \* the last resolve_skill call and what it returned
    rs_again,         \* resolve_skill called with the canonical name of rs_last
    rc_last,          \* the last resolve_company call and what it returned
    rc_again,         \* resolve_company called with the canonical name of rc_last
    vr_last,          \* the last validate_relationship_type call
    _job_contexts,    \* the dict _job_contexts of api/routes/analyze.py
    js_last           \* the last request to a route of the store and its status

fb_vars == <<fb_pc, preferred_mode, fallback_chain, mode_idx, sources,
             rag_result, backend_calls>>
chat_vars == <<chat_pc, chat_mode, candidates, raw_context, grounded_response,
               validated, chat_result>>
validator_vars == <<val_response, val_context, val_result>>
\* The variables of the functions that are exercised one call at a time.
filter_vars == <<pr_pc, pr_reranked, pr_top_k, pr_job_query, pr_hash_seed,
                 pr_result>>
bm25_vars == <<bm25_index, bm_last, hs_pc, hs_args, hs_bm25_results,
               hs_searched, hs_results>>
resolver_vars == <<resolver, rs_last, rs_again, rc_last, rc_again, vr_last>>
store_vars == <<_job_contexts, js_last>>
unit_vars == <<validator_vars, filter_vars, bm25_vars, resolver_vars,
               store_vars>>
vars == <<fb_pc, preferred_mode, fallback_chain, mode_idx, sources,
          rag_result, backend_calls, chat_pc, chat_mode, candidates,
          raw_context, grounded_response, validated, chat_result, unit_vars>>

---------------------------------------------------------------------------
(* Python values and string methods                                        *)

\* Python's None; no text of the model equals it.
None == "<None>"

\* bool(x) of an Optional[str]: None and "" are falsy.
Truthy(x) == x # None /\ x # ""

Min(S) == CHOOSE m \in S : \A n \in S : m <= n
Max(S) == CHOOSE m \in S : \A n \in S : m >= n

CharAt(s, i) == SubSeq(s, i, i)

UpperLetters == "ABCDEFGHIJKLMNOPQRSTUVWXYZ"
LowerLetters == "abcdefghijklmnopqrstuvwxyz"
Digits == "0123456789"

CharsOf(s) == {CharAt(s, i) : i \in 1..Len(s)}
UpperSet == CharsOf(UpperLetters)
LowerSet == CharsOf(LowerLetters)
DigitSet == CharsOf(Digits)

IsUpper(c) == c \in UpperSet
IsLower(c) == c \in LowerSet
IsDigit(c) == c \in DigitSet
\* \w of the re module (ASCII letters, digits, underscore)
IsWordChar(c) == IsUpper(c) \/ IsLower(c) \/ IsDigit(c) \/ c = "_"
\* \s of the re module, and the characters str.strip() and str.split() drop
IsSpace(c) == c \in {" ", "\n", "\t", "\r"}

\* needle in haystack
Contains(haystack, needle) ==
    \E i \in 1..(Len(haystack) - Len(needle) + 1) :
        SubSeq(haystack, i, i + Len(needle) - 1) = needle

\* s.endswith(suffix)
EndsWith(s, suffix) ==
    /\ Len(s) >= Len(suffix)
    /\ SubSeq(s, Len(s) - Len(suffix) + 1, Len(s)) = suffix

\* s.strip()
Strip(s) ==
    LET keep == {i \in 1..Len(s) : ~IsSpace(CharAt(s, i))}
    IN  IF keep = {} THEN "" ELSE SubSeq(s, Min(keep), Max(keep))

\* The lower-case letter of each upper-case letter
LowerOf ==
    [c \in UpperSet |->
        CharAt(LowerLetters,
               CHOOSE i \in 1..Len(UpperLetters) : CharAt(UpperLetters, i) = c)]

LowerChar(c) == IF IsUpper(c) THEN LowerOf[c] ELSE c

\* s.lower()
RECURSIVE Lower(_)
Lower(s) ==
    IF Len(s) <= 1 THEN LowerChar(s)
    ELSE LET half == Len(s) \div 2
         IN  Lower(SubSeq(s, 1, half)) \o Lower(SubSeq(s, half + 1, Len(s)))

\* set(s.split()): the maximal runs of non-whitespace characters
SplitParts(s) ==
    {SubSeq(s, r[1], r[2]) :
        r \in {q \in (1..Len(s)) \X (1..Len(s)) :
                  /\ q[1] <= q[2]
                  /\ \A k \in q[1]..q[2] : ~IsSpace(CharAt(s, k))
                  /\ (q[1] = 1 \/ IsSpace(CharAt(s, q[1] - 1)))
                  /\ (q[2] = Len(s) \/ IsSpace(CharAt(s, q[2] + 1)))}}

\* sep.join(parts)
RECURSIVE Join(_, _)
Join(sep, parts) ==
    IF parts = <<>> THEN ""
    ELSE IF Len(parts) = 1 THEN parts[1]
    ELSE parts[1] \o sep \o Join(sep, Tail(parts))

\* The upper-case letter of each lower-case letter
UpperOf ==
    [c \in LowerSet |->
        CharAt(UpperLetters,
               CHOOSE i \in 1..Len(LowerLetters) : CharAt(LowerLetters, i) = c)]

UpperChar(c) == IF IsLower(c) THEN UpperOf[c] ELSE c

\* c.isalpha() of one character
IsAlpha(c) == IsUpper(c) \/ IsLower(c)

\* s.upper()
RECURSIVE Upper(_)
Upper(s) ==
    IF Len(s) <= 1 THEN UpperChar(s)
    ELSE LET half == Len(s) \div 2
         IN  Upper(SubSeq(s, 1, half)) \o Upper(SubSeq(s, half + 1, Len(s)))

\* s.title() of the characters lo..hi of s: a letter that follows a letter
\* becomes lower case, every other letter upper case.
RECURSIVE TitleRange(_, _, _)
TitleRange(s, lo, hi) ==
    IF lo > hi THEN ""
    ELSE IF lo = hi
    THEN LET c == CharAt(s, lo)
             after_letter == lo > 1 /\ IsAlpha(CharAt(s, lo - 1))
         IN  IF after_letter THEN LowerChar(c) ELSE UpperChar(c)
    ELSE LET mid == (lo + hi) \div 2
         IN  TitleRange(s, lo, mid) \o TitleRange(s, mid + 1, hi)

\* s.title()
Title(s) == TitleRange(s, 1, Len(s))

\* The position after the run of non-whitespace characters that starts at i
RECURSIVE TokenEnd(_, _)
TokenEnd(s, i) ==
    IF i <= Len(s) /\ ~IsSpace(CharAt(s, i)) THEN TokenEnd(s, i + 1) ELSE i

\* s.split() from position i on, as a list
RECURSIVE SplitFrom(_, _)
SplitFrom(s, i) ==
    IF i > Len(s) THEN <<>>
    ELSE IF IsSpace(CharAt(s, i)) THEN SplitFrom(s, i + 1)
    ELSE <<SubSeq(s, i, TokenEnd(s, i) - 1)>> \o SplitFrom(s, TokenEnd(s, i))

\* s.split()
Split(s) == SplitFrom(s, 1)

\* s.split(sep) for a separator of one character, as a list
RECURSIVE SplitOn(_, _)
SplitOn(s, sep) ==
    LET at == {i \in 1..Len(s) : CharAt(s, i) = sep}
    IN  IF at = {} THEN <<s>>
        ELSE <<SubSeq(s, 1, Min(at) - 1)>>
                 \o SplitOn(SubSeq(s, Min(at) + 1, Len(s)), sep)

\* re.sub('[chars]', '', s)
RECURSIVE RemoveChars(_, _)
RemoveChars(s, chars) ==
    IF s = "" THEN ""
    ELSE (IF CharAt(s, 1) \in chars THEN "" ELSE CharAt(s, 1))
             \o RemoveChars(SubSeq(s, 2, Len(s)), chars)

\* s[i:j] of a list or text, with Python's 0-based bounds clipped
Slice(s, i, j) == SubSeq(s, i + 1, IF j < Len(s) THEN j ELSE Len(s))

\* The elements of a list
Range(s) == {s[i] : i \in 1..Len(s)}

---------------------------------------------------------------------------
(* The retrieval backend (LightRAG) as the controller sees it              *)

\* DualLevelRetrieval.FALLBACK_CHAIN
FALLBACK_CHAIN == <<"mix", "hybrid", "local", "naive">>

ChainModes == {FALLBACK_CHAIN[i] : i \in 1..Len(FALLBACK_CHAIN)}

\* The modes a caller may ask for: those of the chain and "global", which
\* the chat route documents and the chain does not hold.
Modes == ChainModes \cup {"global"}

\* Texts rag.aquery may generate.
BackendResponses == {"Mark Davis has 5 years of Python.",
                     "As an AI I recommend Sarah Chen."}

\* Messages of the exceptions rag.aquery may raise.
BackendErrors == {"connection refused", "timed out"}

\* One answer of rag.aquery: it returns value, or raises Exception(value).
BackendOutcomes ==
    {[raises |-> FALSE, value |-> v] : v \in BackendResponses \cup {None, ""}}
    \cup {[raises |-> TRUE, value |-> e] : e \in BackendErrors}

---------------------------------------------------------------------------
(* DualLevelRetrieval.query_with_mode and query_with_fallback              *)

NoResult == [response |-> None, mode_used |-> "", srcs |-> <<>>,
             fallback_used |-> FALSE]

\* RetrievalResult(response, mode_used, sources, fallback_used)
RetrievalResult(response, mode_used, srcs, fallback_used) ==
    [response |-> response, mode_used |-> mode_used, srcs |-> srcs,
     fallback_used |-> fallback_used]

\* query_with_mode without its except clause: the exception leaves the method.
query_with_mode_NoExcept(outcome, mode) ==
    IF outcome.raises
    THEN [response |-> None, used_mode |-> mode, raised |-> TRUE]
    ELSE IF Truthy(outcome.value)
         THEN [response |-> outcome.value, used_mode |-> mode, raised |-> FALSE]
         ELSE [response |-> None, used_mode |-> mode, raised |-> FALSE]

\* query_with_mode: the try/except around rag.aquery.  raised tells whether
\* an exception leaves the method (the text of a caught one is only logged).
query_with_mode(outcome, mode) ==
    IF outcome.raises
    THEN [response |-> None, used_mode |-> mode, raised |-> FALSE]
    ELSE IF Truthy(outcome.value)
         THEN [response |-> outcome.value, used_mode |-> mode, raised |-> FALSE]
         ELSE [response |-> None, used_mode |-> mode, raised |-> FALSE]

IndexOf(seq, x) == Min({i \in 1..Len(seq) : seq[i] = x})

\* The chain built without the preferred mode when the chain does not hold it
BuildFallbackChain_DropPreferred(preferred) ==
    IF preferred \in ChainModes
    THEN SubSeq(FALLBACK_CHAIN, IndexOf(FALLBACK_CHAIN, preferred),
                Len(FALLBACK_CHAIN))
    ELSE FALLBACK_CHAIN

\* The chain built without slicing at start_idx
BuildFallbackChain_WholeChain(preferred) ==
    IF preferred \in ChainModes
    THEN FALLBACK_CHAIN
    ELSE <<preferred>> \o FALLBACK_CHAIN

\* The chain built by always prepending the preferred mode
BuildFallbackChain_AlwaysPrepend(preferred) == <<preferred>> \o FALLBACK_CHAIN

\* "Build fallback chain starting with preferred mode"
BuildFallbackChain(preferred) ==
    IF preferred \in ChainModes
    THEN SubSeq(FALLBACK_CHAIN, IndexOf(FALLBACK_CHAIN, preferred),
                Len(FALLBACK_CHAIN))
    ELSE <<preferred>> \o FALLBACK_CHAIN

InitialSources == [attempted_modes |-> <<>>, errors |-> <<>>]

\* fallback_used computed against the default mode instead of the preferred one
SuccessResult_DefaultMode(response, used_mode, srcs, preferred) ==
    RetrievalResult(response, used_mode, srcs, used_mode # FALLBACK_CHAIN[1])

\* The RetrievalResult of a non-empty response
SuccessResult(response, used_mode, srcs, preferred) ==
    RetrievalResult(response, used_mode, srcs, used_mode # preferred)

\* "All modes failed - return error"
APOLOGY ==
    "Unable to retrieve relevant information. Please try rephrasing your query."

\* The failure result with fallback_used left at the dataclass default
FailedResult_DefaultFlag(srcs) == RetrievalResult(APOLOGY, "none", srcs, FALSE)

FailedResult(srcs) == RetrievalResult(APOLOGY, "none", srcs, TRUE)

\* The state of query_with_fallback on entry (lines 96-103)
EnterFallback(preferred) ==
    /\ fb_pc' = "loop"
    /\ preferred_mode' = preferred
    /\ fallback_chain' = BuildFallbackChain(preferred)
    /\ mode_idx' = 1
    /\ sources' = InitialSources
    /\ rag_result' = NoResult
    /\ backend_calls' = <<>>

FbIdle ==
    /\ fb_pc' = "idle"
    /\ preferred_mode' = ""
    /\ fallback_chain' = <<>>
    /\ mode_idx' = 0
    /\ sources' = InitialSources
    /\ rag_result' = NoResult
    /\ backend_calls' = <<>>

\* A caller other than the chat flow calls query_with_fallback(query, mode).
QueryWithFallback(mode) ==
    /\ fb_pc = "idle"
    /\ chat_pc = "idle"
    /\ EnterFallback(mode)
    /\ UNCHANGED chat_vars
    /\ UNCHANGED unit_vars

\* One iteration of "for mode in fallback_chain" (lines 105-115).
FallbackAttempt(outcome) ==
    /\ fb_pc = "loop"
    /\ mode_idx <= Len(fallback_chain)
    /\ LET mode == fallback_chain[mode_idx]
           srcs == [sources EXCEPT !.attempted_modes = Append(@, mode)]
           got == query_with_mode(outcome, mode)
       IN  /\ sources' = srcs
           /\ backend_calls' = Append(backend_calls,
                                      [mode |-> mode, outcome |-> outcome])
           /\ IF got.raised
              THEN /\ fb_pc' = "raised"
                   /\ UNCHANGED <<mode_idx, rag_result>>
              ELSE IF Truthy(got.response)
              THEN /\ fb_pc' = "done"
                   /\ rag_result' = SuccessResult(got.response, got.used_mode,
                                                  srcs, preferred_mode)
                   /\ UNCHANGED mode_idx
              ELSE /\ mode_idx' = mode_idx + 1
                   /\ UNCHANGED <<fb_pc, rag_result>>
    /\ UNCHANGED <<preferred_mode, fallback_chain>>
    /\ UNCHANGED chat_vars
    /\ UNCHANGED unit_vars

\* The loop ran out of modes (lines 117-124).
FallbackExhausted ==
    /\ fb_pc = "loop"
    /\ mode_idx > Len(fallback_chain)
    /\ fb_pc' = "done"
    /\ rag_result' = FailedResult(sources)
    /\ UNCHANGED <<preferred_mode, fallback_chain, mode_idx, sources,
                   backend_calls>>
    /\ UNCHANGED chat_vars
    /\ UNCHANGED unit_vars

\* The direct caller takes the result (or the exception).
FallbackReturn ==
    /\ fb_pc \in {"done", "raised"}
    /\ chat_pc = "idle"
    /\ FbIdle
    /\ UNCHANGED chat_vars
    /\ UNCHANGED unit_vars

---------------------------------------------------------------------------
(* validate_grounded_response: the Grounding Validator                     *)

\* [a-z]* from position i of t: the position of its last character, i - 1
\* when the run is empty.
RECURSIVE LowerRunEnd(_, _)
LowerRunEnd(t, i) ==
    IF i <= Len(t) /\ IsLower(CharAt(t, i)) THEN LowerRunEnd(t, i + 1) ELSE i - 1

\* \s* from position i of t, likewise
RECURSIVE SpaceRunEnd(_, _)
SpaceRunEnd(t, i) ==
    IF i <= Len(t) /\ IsSpace(CharAt(t, i)) THEN SpaceRunEnd(t, i + 1) ELSE i - 1

\* [A-Z][a-z]+ at position i: the position of its last character, 0 if
\* there is no match.
CapWordEnd(t, i) ==
    IF /\ i >= 1 /\ i <= Len(t) /\ IsUpper(CharAt(t, i))
       /\ LowerRunEnd(t, i + 1) >= i + 1
    THEN LowerRunEnd(t, i + 1)
    ELSE 0

\* \s+[A-Z][a-z]+ after the word that ends at e: the end of the next word,
\* 0 if there is no match.
NextCapWordEnd(t, e) ==
    LET s == SpaceRunEnd(t, e + 1)
    IN  IF s >= e + 1 THEN CapWordEnd(t, s + 1) ELSE 0

\* \b after position e, whose character is a word character
BoundaryAfter(t, e) == e = Len(t) \/ ~IsWordChar(CharAt(t, e + 1))

\* \b before position i, whose character is a word character
BoundaryBefore(t, i) == i = 1 \/ ~IsWordChar(CharAt(t, i - 1))

\* name_pattern = r'\b([A-Z][a-z]+(?:\s+[A-Z][a-z]+){1,2})\b' matched at
\* position i: the end of the match (three words before two: the
\* quantifier is greedy), 0 if there is none.
NameMatchEnd(t, i) ==
    IF ~BoundaryBefore(t, i) \/ CapWordEnd(t, i) = 0 THEN 0
    ELSE LET e1 == CapWordEnd(t, i)
             e2 == NextCapWordEnd(t, e1)
             e3 == IF e2 = 0 THEN 0 ELSE NextCapWordEnd(t, e2)
         IN  IF e2 = 0 THEN 0
             ELSE IF e3 # 0 /\ BoundaryAfter(t, e3) THEN e3
             ELSE IF BoundaryAfter(t, e2) THEN e2
             ELSE 0

\* set(re.findall(name_pattern, t)): the non-overlapping matches, scanning
\* from position i.
RECURSIVE FindNames(_, _)
FindNames(t, i) ==
    IF i > Len(t) THEN {}
    ELSE LET e == NameMatchEnd(t, i)
         IN  IF e # 0 THEN {SubSeq(t, i, e)} \cup FindNames(t, e + 1)
             ELSE FindNames(t, i + 1)

\* normalize_names(text)
normalize_names(text) == {Lower(m) : m \in FindNames(text, 1)}

\* The marker list without "as an ai"
hallucination_markers_NoAsAnAi ==
    {"i have been trained", "i don't have access",
     "i cannot access", "my knowledge", "my training"}

hallucination_markers ==
    {"i have been trained", "as an ai", "i don't have access",
     "i cannot access", "my knowledge", "my training"}

REASON_TOO_SHORT == "Response too short to be meaningful"
REASON_TRUNCATED == "Response appears truncated"
REASON_NAMES == "Response contains names not found in resume data"
REASON_SELF_REFERENTIAL == "Response contains self-referential AI statements"

Verdict(valid, reason) == [valid |-> valid, reason |-> reason]

\* Check 3: the names of the context against the names of the response
NamesGrounded(response, context) ==
    LET context_names == normalize_names(context)
        response_names == normalize_names(response)
        exact_matches == context_names \cap response_names
        partial_matches ==
            \E r_name \in response_names, c_name \in context_names :
                SplitParts(r_name) \cap SplitParts(c_name) # {}
        lowered == Lower(response)
        disclaimer ==
            \/ Contains(lowered, "no candidate")
            \/ Contains(lowered, "not find")
            \/ Contains(lowered, "cannot provide")
    IN  IF context_names # {} /\ response_names # {}
        THEN exact_matches # {} \/ partial_matches \/ disclaimer
        ELSE TRUE

validate_grounded_response(response, context) ==
    IF ~Truthy(response) \/ Len(Strip(response)) < 10
    THEN Verdict(FALSE, REASON_TOO_SHORT)
    ELSE IF EndsWith(Strip(response), ":") \/ EndsWith(Strip(response), "following")
    THEN Verdict(FALSE, REASON_TRUNCATED)
    ELSE IF ~NamesGrounded(response, context)
    THEN Verdict(FALSE, REASON_NAMES)
    ELSE IF LET response_lower == Lower(response)
            IN  \E marker \in hallucination_markers :
                    Contains(response_lower, marker)
    THEN Verdict(FALSE, REASON_SELF_REFERENTIAL)
    ELSE Verdict(TRUE, "")

---------------------------------------------------------------------------
(* DualLevelRetrieval.dual_level_query                                     *)

\* f"{h / 100:.2f}" of a score given in hundredths
Format2f(h) ==
    ToString(h \div 100) \o "." \o ToString((h \div 10) % 10) \o ToString(h % 10)

\* f"**{c.name}** (Score: {c.score:.2f}):\n{c.content[:500]}..."
CandidateText(c) ==
    "**" \o c.name \o "** (Score: " \o Format2f(c.score) \o "):\n"
    \o SubSeq(c.content, 1, Min({500, Len(c.content)})) \o "..."

\* "\n\n".join(candidate_texts), "" when no candidates are given
CandidateContextText(cands) ==
    IF cands = <<>> THEN ""
    ELSE Join("\n\n", [i \in 1..Len(cands) |-> CandidateText(cands[i])])

\* _aggregate_context(sources)
aggregate_context(vector_context, candidate_context) ==
    Join("\n\n",
         (IF Truthy(vector_context)
          THEN <<"## Retrieved Information\n" \o vector_context>> ELSE <<>>)
         \o (IF Truthy(candidate_context)
             THEN <<"## Shortlisted Candidates\n" \o candidate_context>>
             ELSE <<>>))

\* sources["context_lengths"] of dual_level_query
ContextLengths(rag, cands) ==
    LET total == Len(aggregate_context(rag.response, CandidateContextText(cands)))
    IN  IF cands # <<>>
        THEN [rag |-> Len(rag.response),
              candidates |-> Len(CandidateContextText(cands)),
              total |-> total]
        ELSE [rag |-> Len(rag.response), total |-> total]

\* dual_level_query after query_with_fallback returned rag (steps 2 and 3)
dual_level_query(rag, cands) ==
    [response |-> aggregate_context(rag.response, CandidateContextText(cands)),
     mode_used |-> rag.mode_used,
     fallback_used |-> rag.fallback_used,
     context_lengths |-> ContextLengths(rag, cands)]

---------------------------------------------------------------------------
(* chat_with_dual_retrieval                                                *)

\* The raw contexts rag.aquery(only_need_context=True) may return.
Contexts == {"Mark Davis: Python developer, 5 years", "python developer, 5 years"}

RawContextOutcomes ==
    {[raises |-> FALSE, value |-> v] : v \in Contexts \cup {None, ""}}
    \cup {[raises |-> TRUE, value |-> e] : e \in BackendErrors}

\* The pieces an LLM answer is put together from.
Fragments == {"Sarah Chen", "Mark Davis", "Mark", "no candidates", "my training",
              "candidates:", "following", "found", "As an AI"}

\* The most fragments in one answer
MaxFragments == 2

RECURSIVE TextsOf(_)
TextsOf(n) ==
    IF n = 0 THEN {""}
    ELSE LET shorter == TextsOf(n - 1)
         IN  shorter \cup Fragments
             \cup {a \o " " \o f : a \in shorter \ {""}, f \in Fragments}

Answers == TextsOf(MaxFragments)

\* Messages of the exceptions ollama_llm_func may raise.
LlmErrors == {"Ollama request timed out"}

LlmOutcomes ==
    {[raises |-> FALSE, value |-> v] : v \in Answers \cup {None}}
    \cup {[raises |-> TRUE, value |-> e] : e \in LlmErrors}

\* The shortlists a caller may pass; no candidates (None or []) is <<>>.
\* A score is given in hundredths.
CandidateLists ==
    {<<>>,
     <<[name |-> "Mark Davis", content |-> "['Python', 'AWS']", score |-> 95]>>,
     <<[name |-> "Mark Davis", content |-> "['Python', 'AWS']", score |-> 95],
       [name |-> "Sarah Chen", content |-> "[]", score |-> 7]>>}

NoChatResult == [response |-> None, mode_used |-> "", fallback_used |-> FALSE]

\* Step 1 without its except clause
RawContextOf_NoExcept(outcome) ==
    IF outcome.raises
    THEN [raw_context |-> None, raised |-> TRUE]
    ELSE [raw_context |-> outcome.value, raised |-> FALSE]

\* Step 1: the try/except around the raw context retrieval.  raised tells
\* whether an exception leaves the function.
RawContextOf(outcome) ==
    IF outcome.raises
    THEN [raw_context |-> None, raised |-> FALSE]
    ELSE [raw_context |-> outcome.value, raised |-> FALSE]

SAFE_PREFIX ==
    "Based on the resume data, I found relevant candidates but cannot provide specific details. "

\* The dict returned when the answer passed validation
ValidatedResult(answer, context) ==
    [response |-> answer,
     mode_used |-> "naive (grounded, validated)",
     fallback_used |-> FALSE,
     srcs |-> [rag |-> Len(context), total |-> Len(context)]]

\* The safe message with the rejected answer appended instead of the reason
ValidationFailedResult_EchoAnswer(answer, reason, context) ==
    [response |-> SAFE_PREFIX \o (IF answer = None THEN reason ELSE answer),
     mode_used |-> "naive (grounded, validation failed)",
     fallback_used |-> TRUE,
     srcs |-> [rag |-> Len(context), total |-> Len(context)]]

\* "Return a safe response instead of potentially hallucinated content"
ValidationFailedResult(answer, reason, context) ==
    [response |-> SAFE_PREFIX \o reason,
     mode_used |-> "naive (grounded, validation failed)",
     fallback_used |-> TRUE,
     srcs |-> [rag |-> Len(context), total |-> Len(context)]]

\* Step 2 after ollama_llm_func returned answer (lines 275-294)
GroundedResult(answer, context) ==
    LET validation_result == validate_grounded_response(answer, context)
    IN  IF validation_result.valid
        THEN ValidatedResult(answer, context)
        ELSE ValidationFailedResult(answer, validation_result.reason, context)

\* Step 3: the dict built from dual_level_query's result (lines 300-307)
FallbackChatResult(rag, cands) ==
    LET result == dual_level_query(rag, cands)
    IN  [response |-> result.response,
         mode_used |-> result.mode_used,
         fallback_used |-> result.fallback_used,
         srcs |-> result.context_lengths]

ChatIdle ==
    /\ chat_pc' = "idle"
    /\ chat_mode' = ""
    /\ candidates' = <<>>
    /\ raw_context' = None
    /\ grounded_response' = None
    /\ validated' = {}
    /\ chat_result' = NoChatResult

\* chat_with_dual_retrieval(rag, query, candidates, mode) is called.
ChatCall(mode, cands) ==
    /\ chat_pc = "idle"
    /\ fb_pc = "idle"
    /\ chat_pc' = "raw_context"
    /\ chat_mode' = mode
    /\ candidates' = cands
    /\ UNCHANGED <<raw_context, grounded_response, validated, chat_result>>
    /\ UNCHANGED fb_vars
    /\ UNCHANGED unit_vars

\* Step 1 (lines 253-266): rag.aquery(only_need_context=True) answers.
\* Without a raw context the function goes on to step 3, where
\* dual_level_query enters query_with_fallback(query, mode).
ChatRawContext(outcome) ==
    /\ chat_pc = "raw_context"
    /\ LET got == RawContextOf(outcome)
       IN  IF got.raised
           THEN /\ chat_pc' = "raised"
                /\ UNCHANGED raw_context
                /\ UNCHANGED fb_vars
           ELSE IF Truthy(got.raw_context)
           THEN /\ chat_pc' = "grounded_llm"
                /\ raw_context' = got.raw_context
                /\ UNCHANGED fb_vars
           ELSE /\ chat_pc' = "dual_level_query"
                /\ raw_context' = got.raw_context
                /\ EnterFallback(chat_mode)
    /\ UNCHANGED <<chat_mode, candidates, grounded_response, validated,
                   chat_result>>
    /\ UNCHANGED unit_vars

\* Step 2 (lines 267-297): ollama_llm_func answers the grounded prompt.
\* An exception is logged and the function goes on to step 3.
ChatGroundedLLM(outcome) ==
    /\ chat_pc = "grounded_llm"
    /\ IF outcome.raises
       THEN /\ chat_pc' = "dual_level_query"
            /\ EnterFallback(chat_mode)
            /\ UNCHANGED <<grounded_response, validated, chat_result>>
       ELSE /\ chat_pc' = "returned"
            /\ grounded_response' = outcome.value
            /\ validated' = validated \cup {outcome.value}
            /\ chat_result' = GroundedResult(outcome.value, raw_context)
            /\ UNCHANGED fb_vars
    /\ UNCHANGED <<chat_mode, candidates, raw_context>>
    /\ UNCHANGED unit_vars

\* Step 3 (lines 299-307): query_with_fallback has returned to
\* dual_level_query, which aggregates the context, and the dict is built.
ChatDualLevelQuery ==
    /\ chat_pc = "dual_level_query"
    /\ fb_pc \in {"done", "raised"}
    /\ IF fb_pc = "raised"
       THEN /\ chat_pc' = "raised"
            /\ UNCHANGED chat_result
       ELSE /\ chat_pc' = "returned"
            /\ chat_result' = FallbackChatResult(rag_result, candidates)
    /\ UNCHANGED fb_vars
    /\ UNCHANGED <<chat_mode, candidates, raw_context, grounded_response,
                   validated>>
    /\ UNCHANGED unit_vars

\* The caller takes the dict (or the exception).
ChatReturn ==
    /\ chat_pc \in {"returned", "raised"}
    /\ ChatIdle
    /\ FbIdle
    /\ UNCHANGED unit_vars

---------------------------------------------------------------------------
(* api/routes/analyze.py: the Evidence Filter and its text extractors      *)

\* Scores of this section are in thousandths: 300 is 0.3.
MIN_CONFIDENCE == 300
MIN_SKILLS_FOR_EVIDENCE == 1
HIGH_SCORE_THRESHOLD == 600

\* common_skills of extract_skills_from_text, each as the text its pattern
\* matches ("c\\+\\+" matches "c++", "node\\.js" matches "node.js").
common_skills ==
    <<"python", "java", "javascript", "typescript", "sql", "c++", "c#", "go",
      "rust", "ruby", "php", "swift", "kotlin",
      "aws", "azure", "gcp", "docker", "kubernetes", "terraform",
      "react", "angular", "vue", "node.js", "django", "flask", "fastapi",
      "spring", "express",
      "postgresql", "mongodb", "redis", "mysql", "elasticsearch", "cassandra",
      "machine learning", "deep learning", "nlp", "tensorflow", "pytorch",
      "scikit-learn",
      "data analysis", "data science", "pandas", "spark", "hadoop", "tableau",
      "power bi",
      "ci/cd", "jenkins", "git", "linux", "ansible", "prometheus", "grafana",
      "agile", "scrum", "kanban",
      "rest api", "graphql", "microservices", "grpc">>

\* \b at the gap before position p of text: exactly one of the characters
\* p - 1 and p is a word character.
WordCharAt(text, p) == p >= 1 /\ p <= Len(text) /\ IsWordChar(CharAt(text, p))

WordBoundary(text, p) == WordCharAt(text, p - 1) # WordCharAt(text, p)

\* re.search(rf'\b{skill}\b', text)
SearchWord(text, skill) ==
    \E i \in 1..(Len(text) - Len(skill) + 1) :
        /\ SubSeq(text, i, i + Len(skill) - 1) = skill
        /\ WordBoundary(text, i)
        /\ WordBoundary(text, i + Len(skill))

\* The display name of a skill: title case, upper case for a pattern of at
\* most three characters (the only escaped pattern that short in text,
\* "c++", has five characters as a pattern and reads "C++" either way).
DisplayName(skill) ==
    IF Len(skill) <= 3 THEN Upper(Title(skill)) ELSE Title(skill)

\* found, from entry i of common_skills on
RECURSIVE FoundFrom(_, _)
FoundFrom(text_lower, i) ==
    IF i > Len(common_skills) THEN <<>>
    ELSE (IF SearchWord(text_lower, common_skills[i])
          THEN <<DisplayName(common_skills[i])>> ELSE <<>>)
             \o FoundFrom(text_lower, i + 1)

extract_skills_from_text(text) == FoundFrom(Lower(text), 1)

\* [A-Z][a-z]+ under re.IGNORECASE from position i: the position of the
\* last letter of the run of letters, 0 unless the run has two letters.
RECURSIVE LetterRunEnd(_, _)
LetterRunEnd(t, i) ==
    IF i <= Len(t) /\ IsAlpha(CharAt(t, i)) THEN LetterRunEnd(t, i + 1) ELSE i - 1

AnyCaseWordEnd(t, i) ==
    IF i >= 1 /\ LetterRunEnd(t, i) >= i + 1 THEN LetterRunEnd(t, i) ELSE 0

\* \s+[A-Z][a-z]+ under re.IGNORECASE after position e: the end of that
\* word, 0 if there is no match.
NextAnyCaseWordEnd(t, e) ==
    LET s == SpaceRunEnd(t, e + 1)
    IN  IF s >= e + 1 THEN AnyCaseWordEnd(t, s + 1) ELSE 0

\* word(?:\s+word){lo,hi} under re.IGNORECASE at position i, lo >= 1:
\* the end of the longest match, 0 if there is none.
RECURSIVE MoreWordsEnd(_, _, _, _)
MoreWordsEnd(t, e, lo, hi) ==
    IF hi = 0 THEN e
    ELSE LET n == NextAnyCaseWordEnd(t, e)
         IN  IF n = 0 THEN (IF lo <= 0 THEN e ELSE 0)
             ELSE MoreWordsEnd(t, n, lo - 1, hi - 1)

WordsEnd(t, i, lo, hi) ==
    IF AnyCaseWordEnd(t, i) = 0 THEN 0
    ELSE MoreWordsEnd(t, AnyCaseWordEnd(t, i), lo, hi)

\* text[i:i+len(word)].lower() == word, with 1-based i
LowerAt(t, i, word) ==
    /\ i >= 1
    /\ i + Len(word) - 1 <= Len(t)
    /\ Lower(SubSeq(t, i, i + Len(word) - 1)) = word

\* clean_name(raw_name)
stop_words ==
    {"applying", "seeking", "interested", "looking", "resume", "cv", "profile"}

RECURSIVE UntilStopWord(_)
UntilStopWord(words) ==
    IF words = <<>> \/ Lower(Head(words)) \in stop_words THEN <<>>
    ELSE <<Head(words)>> \o UntilStopWord(Tail(words))

clean_name(raw_name) ==
    LET cleaned_words == UntilStopWord(Split(raw_name))
        kept == IF cleaned_words # <<>> /\ Lower(Head(cleaned_words)) = "candidate"
                THEN Tail(cleaned_words) ELSE cleaned_words
    IN  Title(Join(" ", kept))

UNKNOWN_CANDIDATE == "Unknown Candidate"

\* The name after "resume for" at position j: \s+ and 2-4 words.  The
\* position of its first letter and of its last, <<0, 0>> if there is none.
IntroNameSpan(content, j) ==
    LET s == SpaceRunEnd(content, j + 10) + 1
        e == IF s > j + 10 THEN WordsEnd(content, s, 1, 3) ELSE 0
    IN  IF LowerAt(content, j, "resume for") /\ e # 0 THEN <<s, e>> ELSE <<0, 0>>

\* Pattern 0: re.search(r"here's a .*?resume for\s+(...)", re.IGNORECASE).
\* <<i, j>>: "here's a " at i and, on the same line, "resume for" at j
\* with a name behind it.
IntroMatches(content) ==
    {m \in (1..Len(content)) \X (1..Len(content)) :
        /\ LowerAt(content, m[1], "here's a ")
        /\ m[2] >= m[1] + 9
        /\ IntroNameSpan(content, m[2]) # <<0, 0>>
        /\ \A k \in (m[1] + 9)..(m[2] - 1) : CharAt(content, k) # "\n"}

\* group(1) of the leftmost match, the lazy .*? ending as early as it can;
\* None without a match.
IntroGroup(content) ==
    IF IntroMatches(content) = {} THEN None
    ELSE LET i == Min({m[1] : m \in IntroMatches(content)})
             j == Min({m[2] : m \in {n \in IntroMatches(content) : n[1] = i}})
             span == IntroNameSpan(content, j)
         IN  SubSeq(content, span[1], span[2])

\* Pattern 1: re.search(r'Name:\s*(name of 2-3 words)', re.IGNORECASE)
NameLabelSpan(content, i) ==
    LET s == SpaceRunEnd(content, i + 5) + 1
        e == WordsEnd(content, s, 1, 2)
    IN  IF LowerAt(content, i, "name:") /\ e # 0 THEN <<s, e>> ELSE <<0, 0>>

NameLabelGroup(content) ==
    LET starts == {i \in 1..Len(content) : NameLabelSpan(content, i) # <<0, 0>>}
    IN  IF starts = {} THEN None
        ELSE LET span == NameLabelSpan(content, Min(starts))
             IN  SubSeq(content, span[1], span[2])

\* Pattern 2: a line of 2-4 capitalised alphabetic words among the first
\* three lines.
header_lines ==
    {"resume", "curriculum vitae", "candidate profile", "professional summary"}

LineWords(line) == Split(Strip(RemoveChars(line, {"#", "*", "-", "_", ":", "."})))

IsNameLine(words) ==
    /\ Len(words) >= 2
    /\ Len(words) <= 4
    /\ \A k \in 1..Len(words) :
          /\ IsUpper(CharAt(words[k], 1))
          /\ \A c \in 1..Len(words[k]) : IsAlpha(CharAt(words[k], c))

\* What the loop over lines[:3] returns from line k on; None when it ends
\* without a return.
RECURSIVE FirstLinesName(_, _)
FirstLinesName(lines, k) ==
    IF k > Len(lines) \/ k > 3 THEN None
    ELSE LET words == LineWords(lines[k])
             curr_name == Join(" ", words)
             cleaned == clean_name(curr_name)
         IN  IF /\ IsNameLine(words)
                /\ Lower(curr_name) \notin header_lines
                /\ cleaned # ""
                /\ Lower(cleaned) # "unknown candidate"
             THEN cleaned
             ELSE FirstLinesName(lines, k + 1)

\* \w+ from position i: the position of its last character
RECURSIVE WordCharRunEnd(_, _)
WordCharRunEnd(t, i) ==
    IF i <= Len(t) /\ IsWordChar(CharAt(t, i)) THEN WordCharRunEnd(t, i + 1) ELSE i - 1

\* Pattern 3: re.search(r'Resume:\s*\w+\s+(two words)', re.IGNORECASE)
ResumeLabelSpan(content, i) ==
    LET w == SpaceRunEnd(content, i + 7) + 1
        we == WordCharRunEnd(content, w)
        s == SpaceRunEnd(content, we + 1) + 1
        e == IF we >= w /\ s > we + 1 THEN WordsEnd(content, s, 1, 1) ELSE 0
    IN  IF LowerAt(content, i, "resume:") /\ e # 0 THEN <<s, e>> ELSE <<0, 0>>

ResumeLabelGroup(content) ==
    LET starts == {i \in 1..Len(content) : ResumeLabelSpan(content, i) # <<0, 0>>}
    IN  IF starts = {} THEN None
        ELSE LET span == ResumeLabelSpan(content, Min(starts))
             IN  SubSeq(content, span[1], span[2])

extract_candidate_name(content) ==
    LET intro == IntroGroup(content)
        label == NameLabelGroup(content)
        first == FirstLinesName(SplitOn(Strip(content), "\n"), 1)
        marker == ResumeLabelGroup(content)
    IN  IF /\ intro # None
           /\ Len(Split(clean_name(intro))) >= 2
           /\ Len(Split(clean_name(intro))) <= 4
        THEN clean_name(intro)
        ELSE IF /\ label # None
                /\ Len(clean_name(label)) >= 3
                /\ Len(clean_name(label)) <= 50
        THEN clean_name(label)
        ELSE IF first # None THEN first
        ELSE IF marker # None THEN clean_name(marker)
        ELSE UNKNOWN_CANDIDATE

\* f"{score:.0%}" of a score in thousandths: the percentage rounded half
\* to even (the scores the model formats are whole percentages).
PercentText(score) ==
    LET whole == score \div 10
        rest == score % 10
        up == rest > 5 \/ (rest = 5 /\ whole % 2 = 1)
    IN  ToString(IF up THEN whole + 1 ELSE whole) \o "%"

\* create_match_reason(content, matched_skills, score)
create_match_reason(matched_skills, score) ==
    IF matched_skills = <<>>
    THEN "Relevance score: " \o PercentText(score)
    ELSE IF Len(matched_skills) >= 3
    THEN "Strong match: " \o Join(", ", Slice(matched_skills, 0, 3))
             \o " + " \o ToString(Len(matched_skills) - 3) \o " more"
    ELSE "Matches: " \o Join(", ", matched_skills)

role_prefixes == {"senior ", "junior ", "lead ", "staff "}
role_names ==
    {"developer", "engineer", "analyst", "manager", "designer", "scientist",
     "architect"}

\* role_patterns[0] matched at position i: the position of the last
\* character of the match, 0 if there is none.  The optional prefix is
\* tried first.
RoleEndAt(content, i) ==
    LET direct == {i + Len(r) - 1 : r \in {q \in role_names : LowerAt(content, i, q)}}
        prefixed ==
            {i + Len(p) + Len(r) - 1 :
                <<p, r>> \in {q \in role_prefixes \X role_names :
                                /\ LowerAt(content, i, q[1])
                                /\ LowerAt(content, i + Len(q[1]), q[2])}}
    IN  IF prefixed # {} THEN Max(prefixed)
        ELSE IF direct # {} THEN Max(direct)
        ELSE 0

\* [a-zA-Z\s]* from position i: the position of its last character
RECURSIVE CompanyRunEnd(_, _)
CompanyRunEnd(t, i) ==
    IF i <= Len(t) /\ (IsAlpha(CharAt(t, i)) \/ IsSpace(CharAt(t, i)))
    THEN CompanyRunEnd(t, i + 1) ELSE i - 1

\* r'(?:at|@|-)\s*([A-Z][a-zA-Z\s]{2,20})' matched at position i of the
\* window: the span of group 1, <<0, 0>> if there is none.
CompanySpanAt(window, i) ==
    LET lead == IF i + 1 <= Len(window) /\ SubSeq(window, i, i + 1) = "at" THEN 2
                ELSE IF CharAt(window, i) \in {"@", "-"} THEN 1
                ELSE 0
        s == SpaceRunEnd(window, i + lead) + 1
        run == CompanyRunEnd(window, s + 1)
        e == IF run > s + 20 THEN s + 20 ELSE run
    IN  IF lead # 0 /\ s <= Len(window) /\ IsUpper(CharAt(window, s)) /\ e >= s + 2
        THEN <<s, e>> ELSE <<0, 0>>

CompanyGroup(window) ==
    LET starts == {i \in 1..Len(window) : CompanySpanAt(window, i) # <<0, 0>>}
    IN  IF starts = {} THEN None
        ELSE LET span == CompanySpanAt(window, Min(starts))
             IN  SubSeq(window, span[1], span[2])

\* \d+ from position i: the position of its last digit
RECURSIVE DigitRunEnd(_, _)
DigitRunEnd(t, i) ==
    IF i <= Len(t) /\ IsDigit(CharAt(t, i)) THEN DigitRunEnd(t, i + 1) ELSE i - 1

\* r'(\d+)\+?\s*years?...' matched at position i: the end of group 1,
\* 0 if there is no match.
YearsDigitsEnd(content, i) ==
    LET d == DigitRunEnd(content, i)
        plus == IF d + 1 <= Len(content) /\ CharAt(content, d + 1) = "+"
                THEN d + 1 ELSE d
        s == SpaceRunEnd(content, plus + 1)
    IN  IF d >= i /\ LowerAt(content, s + 1, "year") THEN d ELSE 0

\* extract_experience_summary(content).  The second entry of role_patterns
\* ends in Developer or Engineer, which the first entry finds wherever the
\* second would, so the loop never reaches a match of the second.
extract_experience_summary(content) ==
    LET role_starts == {i \in 1..Len(content) : RoleEndAt(content, i) # 0}
        year_starts == {i \in 1..Len(content) : YearsDigitsEnd(content, i) # 0}
    IN  IF role_starts # {}
        THEN LET i == Min(role_starts)
                 e == RoleEndAt(content, i)
                 role == Strip(SubSeq(content, i, e))
                 company == CompanyGroup(Slice(content, e, e + 100))
             IN  IF company # None
                 THEN Slice(role \o " at " \o Strip(company), 0, 60)
                 ELSE Slice(role, 0, 40)
        ELSE IF year_starts # {}
        THEN SubSeq(content, Min(year_starts),
                    YearsDigitsEnd(content, Min(year_starts)))
                 \o " years experience"
        ELSE ""

\* The resume chunks the reranker hands over
ResumeContents ==
    {"Name: Mark Davis. Python developer at Acme",
     "NAME: MARK DAVIS. Java engineer, 7 years",
     "Name: Sarah Chen. Project manager",
     "Anna Lee\nReact and SQL, 3+ years",
     "Senior accountant, 5 years",
     "Resume: of Omar Khan - Python, SQL",
     "Here's a resume for Priya Patel applying for data science"}

\* The job descriptions of the requests; "" is the default of the function.
JobQueries ==
    {"Looking for a Python developer with SQL", "Great communicator wanted", ""}

FilterTexts == ResumeContents \cup JobQueries

\* What the extractors return for the texts of the model, computed once
ExtractedName == [t \in FilterTexts |-> extract_candidate_name(t)]
ExtractedSkills == [t \in FilterTexts |-> extract_skills_from_text(Lower(t))]
ExtractedSummary == [t \in FilterTexts |-> extract_experience_summary(t)]

\* item.get("relevance_score", 0.5), in tenths
ItemScore(item) ==
    IF "relevance_score" \in DOMAIN item THEN item.relevance_score ELSE 5

\* item.get("content", "")
ItemContent(item) == IF "content" \in DOMAIN item THEN item.content ELSE ""

\* (score + 10) / 20 without max and min
NormalizedScore_NoClamp(score) == (score + 100) * 5

\* max(0.0, min(1.0, (score + 10) / 20)) of a score in tenths, in
\* thousandths.  round(normalized_score, 3) leaves these values as they are.
NormalizedScore(score) ==
    LET mapped == (score + 100) * 5
    IN  IF mapped < 0 THEN 0 ELSE IF mapped > 1000 THEN 1000 ELSE mapped

\* The position of a display name in the order of common_skills
SkillRank(name) ==
    CHOOSE i \in 1..Len(common_skills) : DisplayName(common_skills[i]) = name

\* list(a_set): the order in which a set of strings is iterated depends on
\* the hash seed of the process; the two seeds of the model give the order
\* of common_skills and its reverse.
RECURSIVE ListOfSet(_, _)
ListOfSet(names, hash_seed) ==
    IF names = {} THEN <<>>
    ELSE LET ranks == {SkillRank(n) : n \in names}
             pick == IF hash_seed = 1 THEN Min(ranks) ELSE Max(ranks)
             first == CHOOSE n \in names : SkillRank(n) = pick
         IN  <<first>> \o ListOfSet(names \ {first}, hash_seed)

\* skills_matched (line 261)
SkillsMatched(resume_skills, job_skills, hash_seed) ==
    IF job_skills # <<>>
    THEN ListOfSet(Range(resume_skills) \cap Range(job_skills), hash_seed)
    ELSE Slice(resume_skills, 0, 5)

\* name.lower() in seen_names, without the test
IsDuplicate_Never(name, seen_names) == FALSE

\* name.lower() in seen_names
IsDuplicate(name, seen_names) == Lower(name) \in seen_names

\* The test of line 233 that never ends the loop
LimitReached_Never(previews, top_k) == FALSE

\* len(candidates) >= top_k (line 233)
LimitReached(previews, top_k) == Len(previews) >= top_k

\* CandidatePreview(...).  index is not a field of the class: it records
\* which item of reranked the preview was built from.
CandidatePreview(name, score, match_reason, skills_matched, experience_summary, index) ==
    [name |-> name, score |-> score, match_reason |-> match_reason,
     skills_matched |-> skills_matched,
     experience_summary |-> experience_summary, index |-> index]

\* The for loop of parse_reranked_to_candidates from item i on.
RECURSIVE FilterLoop(_, _, _, _, _, _, _)
FilterLoop(reranked, top_k, job_skills, hash_seed, i, previews, seen_names) ==
    IF i > Len(reranked) \/ LimitReached(previews, top_k) THEN previews
    ELSE LET content == ItemContent(reranked[i])
             name == ExtractedName[content]
             normalized_score == NormalizedScore(ItemScore(reranked[i]))
             resume_skills == ExtractedSkills[content]
             skills_matched == SkillsMatched(resume_skills, job_skills, hash_seed)
             has_sufficient_evidence ==
                 Len(skills_matched) >= MIN_SKILLS_FOR_EVIDENCE
             has_high_score == normalized_score >= HIGH_SCORE_THRESHOLD
             seen == seen_names \cup {Lower(name)}
         IN  IF IsDuplicate(name, seen_names)
             THEN FilterLoop(reranked, top_k, job_skills, hash_seed, i + 1,
                             previews, seen_names)
             ELSE IF normalized_score < MIN_CONFIDENCE
             THEN FilterLoop(reranked, top_k, job_skills, hash_seed, i + 1,
                             previews, seen)
             ELSE IF ~has_sufficient_evidence /\ ~has_high_score
             THEN FilterLoop(reranked, top_k, job_skills, hash_seed, i + 1,
                             previews, seen)
             ELSE FilterLoop(reranked, top_k, job_skills, hash_seed, i + 1,
                             Append(previews,
                                    CandidatePreview(
                                        name, normalized_score,
                                        create_match_reason(skills_matched,
                                                            normalized_score),
                                        Slice(skills_matched, 0, 5),
                                        ExtractedSummary[content], i)),
                             seen)

\* The place of a new element in a list sorted by score, highest first:
\* before every element it beats, and before its equals as well.
InsertByScore_BeforeEquals(sorted, c) ==
    LET ahead == {k \in 1..Len(sorted) : sorted[k].score > c.score}
        n == Cardinality(ahead)
    IN  SubSeq(sorted, 1, n) \o <<c>> \o SubSeq(sorted, n + 1, Len(sorted))

\* The place of a later element in a list sorted by score, highest first:
\* behind its equals, as list.sort keeps equal elements in their order.
InsertByScore(sorted, c) ==
    LET ahead == {k \in 1..Len(sorted) : sorted[k].score >= c.score}
        n == Cardinality(ahead)
    IN  SubSeq(sorted, 1, n) \o <<c>> \o SubSeq(sorted, n + 1, Len(sorted))

\* candidates.sort(key=lambda c: c.score, reverse=True)
RECURSIVE SortByScore(_)
SortByScore(previews) ==
    IF previews = <<>> THEN <<>>
    ELSE InsertByScore(SortByScore(SubSeq(previews, 1, Len(previews) - 1)),
                       previews[Len(previews)])

parse_reranked_to_candidates(reranked, top_k, job_query, hash_seed) ==
    SortByScore(FilterLoop(reranked, top_k, ExtractedSkills[job_query],
                           hash_seed, 1, <<>>, {}))

\* The items of a reranked list: a chunk with its relevance score in tenths
\* (-50 gives 0.25, -40 gives 0.30, -20 gives 0.40, 20 gives 0.60, 30
\* gives 0.65, 150 is cut to 1.0, -150 is cut to 0.0), and an item without
\* a score.
RerankedItems ==
    {[content |-> "Name: Mark Davis. Python developer at Acme", relevance_score |-> -50],
     [content |-> "Name: Mark Davis. Python developer at Acme", relevance_score |-> -40],
     [content |-> "NAME: MARK DAVIS. Java engineer, 7 years", relevance_score |-> 30],
     [content |-> "Name: Sarah Chen. Project manager", relevance_score |-> -20],
     [content |-> "Name: Sarah Chen. Project manager", relevance_score |-> 20],
     [content |-> "Name: Sarah Chen. Project manager", relevance_score |-> -150],
     [content |-> "Anna Lee\nReact and SQL, 3+ years", relevance_score |-> -20],
     [content |-> "Senior accountant, 5 years", relevance_score |-> 30],
     [content |-> "Resume: of Omar Khan - Python, SQL", relevance_score |-> -20],
     [content |-> "Here's a resume for Priya Patel applying for data science", relevance_score |-> 150],
     [content |-> "Senior accountant, 5 years"]}

\* The most items in one reranked list
MaxItems == 3
\* The largest top_k of a request (JobAnalysisRequest.top_k is at least 1)
MaxTopK == 3

RECURSIVE ListsOf(_, _)
ListsOf(S, n) ==
    IF n = 0 THEN {<<>>}
    ELSE ListsOf(S, n - 1)
         \cup {Append(l, x) : l \in {m \in ListsOf(S, n - 1) : Len(m) = n - 1}, x \in S}

---------------------------------------------------------------------------
(* src/bm25_search.py: the Lexical Index (BM25Index) and Score Fusion      *)

\* text[i:i+len(lit)] == lit, with 1-based i
LiteralAt(text, i, lit) ==
    /\ i >= 1
    /\ i + Len(lit) - 1 <= Len(text)
    /\ SubSeq(text, i, i + Len(lit) - 1) = lit

\* skill_normalizations in the order of the dict.  An entry <<before,
\* between, after, replacement>> stands for the pattern \b before between
\* after \b, where between is "dot" for \.?, "spaces" for \s* and "" for
\* nothing.
skill_normalizations ==
    <<<<"react", "dot", "js", "reactjs">>,
      <<"node", "dot", "js", "nodejs">>,
      <<"vue", "dot", "js", "vuejs">>,
      <<"type", "spaces", "script", "typescript">>,
      <<"java", "spaces", "script", "javascript">>,
      <<"c++", "", "", "cplusplus">>,
      <<"c#", "", "", "csharp">>,
      <<".net", "", "", "dotnet">>,
      <<"aws", "", "", "aws">>,
      <<"gcp", "", "", "gcp">>,
      <<"azure", "", "", "azure">>>>

\* The pattern of an entry matched at position i of text: the position of
\* the last character of the match, 0 if there is none.
PatternEndAt(text, i, entry) ==
    LET a == i + Len(entry[1])
        b == IF entry[2] = "dot"
             THEN (IF a <= Len(text) /\ CharAt(text, a) = "." THEN a + 1 ELSE a)
             ELSE IF entry[2] = "spaces" THEN SpaceRunEnd(text, a) + 1
             ELSE a
        e == b + Len(entry[3]) - 1
    IN  IF /\ WordBoundary(text, i)
           /\ LiteralAt(text, i, entry[1])
           /\ LiteralAt(text, b, entry[3])
           /\ WordBoundary(text, e + 1)
        THEN e ELSE 0

\* re.sub(pattern, replacement, text) from position i of text on
RECURSIVE ReSubFrom(_, _, _)
ReSubFrom(text, i, entry) ==
    IF i > Len(text) THEN ""
    ELSE IF PatternEndAt(text, i, entry) # 0
    THEN entry[4] \o ReSubFrom(text, PatternEndAt(text, i, entry) + 1, entry)
    ELSE CharAt(text, i) \o ReSubFrom(text, i + 1, entry)

\* The for loop over skill_normalizations from entry k on
RECURSIVE NormalizeFrom(_, _)
NormalizeFrom(text, k) ==
    IF k > Len(skill_normalizations) THEN text
    ELSE NormalizeFrom(ReSubFrom(text, 1, skill_normalizations[k]), k + 1)

\* [a-z0-9+#]
IsTokenChar(c) == IsLower(c) \/ IsDigit(c) \/ c \in {"+", "#"}

RECURSIVE TokenCharRunEnd(_, _)
TokenCharRunEnd(text, i) ==
    IF i <= Len(text) /\ IsTokenChar(CharAt(text, i))
    THEN TokenCharRunEnd(text, i + 1) ELSE i - 1

\* r'\b[a-z0-9+#]+\b' matched at position i: the end of the longest run
\* that ends at a word boundary, 0 if there is none.
TokenMatchEnd(text, i) ==
    IF ~WordBoundary(text, i) THEN 0
    ELSE LET ends == {e \in i..TokenCharRunEnd(text, i) : WordBoundary(text, e + 1)}
         IN  IF ends = {} THEN 0 ELSE Max(ends)

\* re.findall(r'\b[a-z0-9+#]+\b', text) from position i on
RECURSIVE FindTokens(_, _)
FindTokens(text, i) ==
    IF i > Len(text) THEN <<>>
    ELSE IF TokenMatchEnd(text, i) # 0
    THEN <<SubSeq(text, i, TokenMatchEnd(text, i))>>
             \o FindTokens(text, TokenMatchEnd(text, i) + 1)
    ELSE FindTokens(text, i + 1)

stopwords ==
    {"the", "a", "an", "and", "or", "but", "in", "on", "at", "to", "for",
     "of", "with", "by", "is", "are", "was", "were", "be", "been", "have",
     "has", "had", "do", "does", "did", "will", "would", "could", "should",
     "may", "might", "can"}

KeepToken(t) == Len(t) > 1 /\ t \notin stopwords

\* BM25Index._tokenize(text)
_tokenize(text) ==
    SelectSeq(FindTokens(NormalizeFrom(Lower(text), 1), 1), KeepToken)

\* A float is a fraction <<numerator, denominator>> in lowest terms with a
\* positive denominator.
Abs(x) == IF x < 0 THEN -x ELSE x

RECURSIVE Gcd(_, _)
Gcd(a, b) == IF b = 0 THEN a ELSE Gcd(b, a % b)

Rat(n, d) == <<n \div Gcd(Abs(n), d), d \div Gcd(Abs(n), d)>>
RatAdd(x, y) == Rat(x[1] * y[2] + y[1] * x[2], x[2] * y[2])
RatMul(x, y) == Rat(x[1] * y[1], x[2] * y[2])
RatLeq(x, y) == x[1] * y[2] <= y[1] * x[2]

\* round(x, 3) in thousandths, a tie going to the even neighbour
Round3(x) ==
    LET floor == (x[1] * 1000) \div x[2]
        rest == x[1] * 1000 - floor * x[2]
    IN  IF 2 * rest > x[2] THEN floor + 1
        ELSE IF 2 * rest < x[2] THEN floor
        ELSE IF floor % 2 = 0 THEN floor
        ELSE floor + 1

\* The resume chunks of a batch
DocTexts == {"Python developer at Acme", "Senior Java engineer, 7 years"}

\* The queries of BM25Index.search and of hybrid_search
SearchQueries == {"Python developer", "of the"}

\* self._tokenize of the texts above, computed once
TokensOf == [t \in DocTexts \cup SearchQueries |-> _tokenize(t)]

\* BM25Index(): the fields after __init__.  built says that _index is
\* not None, corpus is the tokenized corpus that BM25Okapi was given.
NewIndex ==
    [documents |-> <<>>, tokenized_docs |-> <<>>, built |-> FALSE, corpus |-> <<>>]

\* BM25Index.build_index(documents): the fields afterwards
build_index(documents) ==
    LET tokenized == [k \in 1..Len(documents) |-> TokensOf[documents[k]]]
    IN  [documents |-> documents, tokenized_docs |-> tokenized,
         built |-> TRUE, corpus |-> tokenized]

\* The raw scores BM25Okapi may assign (rank_bm25 is not part of the
\* repository): a term frequency of zero gives the score 0; a document
\* that holds a query token gets a positive score, or 0 or a negative one
\* where the inverse document frequency of the token is not positive.
ScoreValues == {-1, 0, 1, 2}

\* self._index.get_scores(query_tokens): the arrays it may return
get_scores(corpus, query_tokens) ==
    {scores \in [1..Len(corpus) -> ScoreValues] :
        \A k \in 1..Len(corpus) :
            Range(corpus[k]) \cap Range(query_tokens) = {} => scores[k] = 0}

BM25SearchResult(content, score, index) ==
    [content |-> content, score |-> score, index |-> index]

\* The loop of search (lines 112-119) from document k on, without the
\* test of the score
RECURSIVE ScoredResults_NoFilter(_, _, _)
ScoredResults_NoFilter(index, scores, k) ==
    IF k > Len(scores) THEN <<>>
    ELSE <<BM25SearchResult(index.documents[k], scores[k], k - 1)>>
             \o ScoredResults_NoFilter(index, scores, k + 1)

\* The loop of search (lines 112-119) from document k on
RECURSIVE ScoredResults(_, _, _)
ScoredResults(index, scores, k) ==
    IF k > Len(scores) THEN <<>>
    ELSE (IF scores[k] > 0
          THEN <<BM25SearchResult(index.documents[k], scores[k], k - 1)>>
          ELSE <<>>)
             \o ScoredResults(index, scores, k + 1)

\* BM25Index.search(query, top_k) when get_scores returns scores
search(index, query, top_k, scores) ==
    IF ~index.built \/ index.documents = <<>> THEN <<>>
    ELSE IF TokensOf[query] = <<>> THEN <<>>
    ELSE Slice(SortByScore(ScoredResults(index, scores, 1)), 0, top_k)

\* The arrays get_scores may return to search(query, ...); one empty array
\* when search returns before it asks.
ScoresFor(index, query) ==
    IF ~index.built \/ index.documents = <<>> \/ TokensOf[query] = <<>>
    THEN {<<>>}
    ELSE get_scores(index.corpus, TokensOf[query])

\* bm25_score_map.get(i, 0.0) after the normalization of lines 184-187
Bm25Score(bm25_results, i) ==
    LET found == {k \in 1..Len(bm25_results) : bm25_results[k].index = i}
        max_bm25 == Max({bm25_results[k].score : k \in 1..Len(bm25_results)})
        value == bm25_results[CHOOSE k \in found : TRUE].score
    IN  IF found = {} THEN Rat(0, 1)
        ELSE IF max_bm25 > 0 THEN Rat(value, max_bm25)
        ELSE Rat(value, 1)

\* normalized_vector without the normalization: the scores as they came
NormalizedVector_Raw(vector_scores) ==
    [k \in 1..Len(vector_scores) |-> Rat(vector_scores[k], 1)]

\* normalized_vector (lines 190-193)
NormalizedVector(vector_scores) ==
    LET max_vector == IF vector_scores # <<>> THEN Max(Range(vector_scores)) ELSE 1
        min_vector == IF vector_scores # <<>> THEN Min(Range(vector_scores)) ELSE 0
        range_vector == IF max_vector # min_vector THEN max_vector - min_vector ELSE 1
    IN  [k \in 1..Len(vector_scores) |-> Rat(vector_scores[k] - min_vector, range_vector)]

\* graph_bonus of a call: None, or a list of tenths
NoGraphBonus == [is_none |-> TRUE, list |-> <<>>]
GraphBonus(list) == [is_none |-> FALSE, list |-> list]

\* graph_bonus after lines 196-197, as fractions
GraphBonusOf(args) ==
    IF args.graph_bonus.is_none
    THEN [k \in 1..Len(args.documents) |-> Rat(0, 1)]
    ELSE [k \in 1..Len(args.graph_bonus.list) |-> Rat(args.graph_bonus.list[k], 10)]

\* vec_score (line 203) of the document at 1-based position k
VecScore(normalized_vector, k) ==
    IF k <= Len(normalized_vector) THEN normalized_vector[k] ELSE Rat(0, 1)

\* g_bonus (line 204)
GBonus(graph_bonus, k) ==
    IF k <= Len(graph_bonus) THEN graph_bonus[k] ELSE Rat(0, 1)

\* hybrid_score (lines 206-210) with the weights in tenths
HybridScore(args, bm25_score, vec_score, g_bonus) ==
    RatAdd(RatAdd(RatMul(Rat(args.bm25_weight, 10), bm25_score),
                  RatMul(Rat(args.vector_weight, 10), vec_score)),
           RatMul(Rat(args.graph_weight, 10), g_bonus))

\* The dict appended for the document at 1-based position k (lines 212-221)
HybridResult(args, bm25_results, k) ==
    LET bm25_score == Bm25Score(bm25_results, k - 1)
        vec_score == VecScore(NormalizedVector(args.vector_scores), k)
        g_bonus == GBonus(GraphBonusOf(args), k)
    IN  [content |-> args.documents[k],
         score |-> HybridScore(args, bm25_score, vec_score, g_bonus),
         index |-> k - 1,
         score_breakdown |-> [bm25 |-> Round3(bm25_score),
                              vector |-> Round3(vec_score),
                              graph |-> Round3(g_bonus)]]

\* The place of a later dict in a list sorted by hybrid score, highest
\* first: behind its equals.
InsertByHybridScore(sorted, r) ==
    LET ahead == {k \in 1..Len(sorted) : RatLeq(r.score, sorted[k].score)}
        n == Cardinality(ahead)
    IN  SubSeq(sorted, 1, n) \o <<r>> \o SubSeq(sorted, n + 1, Len(sorted))

\* results.sort(key=lambda x: x['score'], reverse=True)
RECURSIVE SortByHybridScore(_)
SortByHybridScore(results) ==
    IF results = <<>> THEN <<>>
    ELSE InsertByHybridScore(
             SortByHybridScore(SubSeq(results, 1, Len(results) - 1)),
             results[Len(results)])

\* hybrid_search that ranks only the documents search returned
FuseScores_MatchedOnly(args, bm25_results) ==
    Slice(SortByHybridScore([k \in 1..Len(bm25_results) |->
                                HybridResult(args, bm25_results,
                                             bm25_results[k].index + 1)]),
          0, args.top_k)

\* Lines 180-231 of hybrid_search: what it returns for the bm25_results
\* that search gave it
FuseScores(args, bm25_results) ==
    Slice(SortByHybridScore([k \in 1..Len(args.documents) |->
                                HybridResult(args, bm25_results, k)]),
          0, args.top_k)

---------------------------------------------------------------------------
(* src/entity_resolver.py: the Entity Canonicalizer (EntityResolver)       *)

\* The canonical skills of the ontology
CANONICAL_SKILLS ==
    {"Python", "JavaScript", "TypeScript", "Java", "C++", "C#", "C", "Go",
     "Rust", "Ruby", "PHP", "Swift", "Kotlin", "Scala", "R", "MATLAB",
     "Perl", "Shell", "Bash", "PowerShell", "SQL", "NoSQL", "GraphQL",
     "React", "Angular", "Vue.js", "Next.js", "Svelte", "HTML", "CSS",
     "SASS", "Tailwind CSS", "Bootstrap", "jQuery", "Redux", "Webpack",
     "Vite", "Node.js", "Django", "Flask", "FastAPI", "Spring Boot",
     "Express.js", "Ruby on Rails", "ASP.NET", "Laravel", "NestJS", "Gin",
     "Echo", "PostgreSQL", "MySQL", "MongoDB", "Redis", "Elasticsearch",
     "Cassandra", "DynamoDB", "SQLite", "Oracle", "SQL Server", "Neo4j",
     "Firebase", "AWS", "Azure", "GCP", "Docker", "Kubernetes", "Terraform",
     "Ansible", "Jenkins", "GitLab CI", "GitHub Actions", "CircleCI",
     "Nginx", "Apache", "Linux", "Unix", "Windows Server",
     "Machine Learning", "Deep Learning", "TensorFlow", "PyTorch",
     "Scikit-learn", "Pandas", "NumPy", "Keras", "NLP", "Computer Vision",
     "Data Science", "Data Analysis", "Data Engineering", "ETL",
     "Apache Spark", "Hadoop", "Airflow", "dbt", "Tableau", "Power BI",
     "Looker", "iOS", "Android", "React Native", "Flutter", "SwiftUI",
     "Jetpack Compose", "Jest", "Pytest", "JUnit", "Selenium", "Cypress",
     "Playwright", "TDD", "BDD", "Unit Testing", "Integration Testing",
     "E2E Testing", "Microservices", "REST API", "gRPC", "OAuth", "JWT",
     "CI/CD", "Agile", "Scrum", "Kanban", "Design Patterns", "SOLID", "Git",
     "GitHub", "GitLab", "Bitbucket", "Jira", "Confluence", "Slack",
     "VS Code", "IntelliJ", "Figma", "Postman", "Leadership",
     "Communication", "Problem Solving", "Teamwork", "Project Management",
     "Time Management", "Critical Thinking", "AWS Certified",
     "Azure Certified", "GCP Certified", "PMP", "Scrum Master", "CISSP",
     "CPA", "CFA", "Six Sigma"}

\* Common variations of the skills, each with its canonical form
SKILL_VARIATIONS_items ==
    {<<"js", "JavaScript">>, <<"javascript", "JavaScript">>,
     <<"java script", "JavaScript">>, <<"ecmascript", "JavaScript">>,
     <<"ts", "TypeScript">>, <<"typescript", "TypeScript">>,
     <<"type script", "TypeScript">>, <<"reactjs", "React">>,
     <<"react.js", "React">>, <<"react js", "React">>,
     <<"nodejs", "Node.js">>, <<"node", "Node.js">>,
     <<"node.js", "Node.js">>, <<"vuejs", "Vue.js">>, <<"vue", "Vue.js">>,
     <<"vue.js", "Vue.js">>, <<"angularjs", "Angular">>,
     <<"angular.js", "Angular">>, <<"django rest framework", "Django">>,
     <<"drf", "Django">>, <<"postgres", "PostgreSQL">>,
     <<"psql", "PostgreSQL">>, <<"mongo", "MongoDB">>,
     <<"elastic", "Elasticsearch">>, <<"es", "Elasticsearch">>,
     <<"amazon web services", "AWS">>, <<"amazon aws", "AWS">>,
     <<"google cloud", "GCP">>, <<"google cloud platform", "GCP">>,
     <<"microsoft azure", "Azure">>, <<"k8s", "Kubernetes">>,
     <<"kube", "Kubernetes">>, <<"github actions", "GitHub Actions">>,
     <<"gitlab ci/cd", "GitLab CI">>, <<"ml", "Machine Learning">>,
     <<"dl", "Deep Learning">>, <<"ai", "Machine Learning">>,
     <<"artificial intelligence", "Machine Learning">>,
     <<"natural language processing", "NLP">>, <<"cv", "Computer Vision">>,
     <<"c plus plus", "C++">>, <<"cplusplus", "C++">>, <<"cpp", "C++">>,
     <<"csharp", "C#">>, <<"c sharp", "C#">>, <<"dotnet", "ASP.NET">>,
     <<".net", "ASP.NET">>, <<".net core", "ASP.NET">>,
     <<"aspnet", "ASP.NET">>}

\* SKILL_VARIATIONS as a dict
SKILL_VARIATIONS ==
    [k \in {item[1] : item \in SKILL_VARIATIONS_items} |->
        (CHOOSE item \in SKILL_VARIATIONS_items : item[1] = k)[2]]

\* fuzzy_threshold of EntityResolver() when none is given
DEFAULT_FUZZY_THRESHOLD == 85

\* EntityResolver(fuzzy_threshold, strict_mode): the settings it keeps
EntityResolver(fuzzy_threshold, strict_mode) ==
    [fuzzy_threshold |-> fuzzy_threshold, strict_mode |-> strict_mode]

\* The lower-cased names mapped to themselves
_skill_lookup_Keys == [k \in {Lower(s) : s \in CANONICAL_SKILLS} |-> k]

\* self._skill_lookup: the canonical skill of each lower-cased name
_skill_lookup ==
    [k \in {Lower(s) : s \in CANONICAL_SKILLS} |->
        CHOOSE s \in CANONICAL_SKILLS : Lower(s) = k]

\* self._skill_variations: the variations with lower-cased keys
_skill_variations ==
    [k \in {Lower(v) : v \in DOMAIN SKILL_VARIATIONS} |->
        SKILL_VARIATIONS[CHOOSE v \in DOMAIN SKILL_VARIATIONS : Lower(v) = k]]

ResolvedEntity(original, canonical, entity_type, confidence, is_known) ==
    [original |-> original, canonical |-> canonical,
     entity_type |-> entity_type, confidence |-> confidence,
     is_known |-> is_known]

\* Cells lo..hi of one row of the table of longest common subsequences:
\* the lengths for the prefix of a that ends with ch and the prefixes of
\* b.  prev is the row of the prefix before ch, diag its cell lo - 1 and
\* left the cell lo - 1 of this row.  The range is halved to keep the
\* evaluation shallow.
RECURSIVE LcsCells(_, _, _, _, _, _, _)
LcsCells(prev, ch, b, lo, hi, diag, left) ==
    IF lo = hi
    THEN <<IF ch = CharAt(b, lo) THEN diag + 1
           ELSE IF prev[lo] >= left THEN prev[lo] ELSE left>>
    ELSE LET mid == (lo + hi) \div 2
             first == LcsCells(prev, ch, b, lo, mid, diag, left)
         IN  first \o LcsCells(prev, ch, b, mid + 1, hi, prev[mid],
                               first[Len(first)])

LcsRow(prev, ch, b) == LcsCells(prev, ch, b, 1, Len(b), 0, 0)

\* The row after the characters lo..hi of a, from the row prev before them
RECURSIVE LcsRows(_, _, _, _, _)
LcsRows(a, b, lo, hi, prev) ==
    IF lo = hi THEN LcsRow(prev, CharAt(a, lo), b)
    ELSE LET mid == (lo + hi) \div 2
             first == LcsRows(a, b, lo, mid, prev)
         IN  IF Len(first) = Len(b) THEN LcsRows(a, b, mid + 1, hi, first)
             ELSE first

\* The length of the longest common subsequence of a and b
Lcs(a, b) ==
    IF a = "" \/ b = "" THEN 0
    ELSE LcsRows(a, b, 1, Len(a), [j \in 1..Len(b) |-> 0])[Len(b)]

\* fuzz.ratio(a, b) of rapidfuzz, as a fraction: the normalized Indel
\* similarity 100 * (1 - (len(a) + len(b) - 2 * lcs) / (len(a) + len(b))),
\* and 100 for two empty strings.
ratio(a, b) ==
    IF Len(a) + Len(b) = 0 THEN Rat(100, 1)
    ELSE Rat(200 * Lcs(a, b), Len(a) + Len(b))

\* The result of process.extractOne where step 3 is not reached
NoMatch == [found |-> FALSE, choice |-> "", score |-> Rat(0, 1)]

\* process.extractOne(query, choices, scorer=fuzz.ratio): a choice of the
\* highest score.  The choices are the keys of a dict built from a set of
\* strings, whose order differs from process to process, so any of the
\* best choices may be the one returned.
extractOne(query, choices) ==
    LET scored == [c \in choices |-> ratio(query, c)]
        best == {c \in choices : \A d \in choices : RatLeq(scored[d], scored[c])}
    IN  {[found |-> TRUE, choice |-> c, score |-> scored[c]] : c \in best}

\* self._clean_entity_name(name)
_clean_entity_name(name) == Title(Join(" ", Split(name)))

\* resolve_skill without step 1, the look-up in the variations
resolve_skill_NoVariations(self, skill, match) ==
    LET original == Strip(skill)
        normalized == Lower(original)
    IN  IF normalized \in DOMAIN _skill_lookup
        THEN ResolvedEntity(original, _skill_lookup[normalized], "SKILL",
                            Rat(1, 1), TRUE)
        ELSE IF match.found /\ RatLeq(Rat(self.fuzzy_threshold, 1), match.score)
        THEN ResolvedEntity(original, _skill_lookup[match.choice], "SKILL",
                            Rat(match.score[1], match.score[2] * 100), TRUE)
        ELSE IF self.strict_mode
        THEN ResolvedEntity(original, Title(original), "SKILL", Rat(0, 1), FALSE)
        ELSE ResolvedEntity(original, _clean_entity_name(original), "SKILL",
                            Rat(1, 2), FALSE)

\* EntityResolver.resolve_skill(skill) when extractOne returns match
resolve_skill(self, skill, match) ==
    LET original == Strip(skill)
        normalized == Lower(original)
    IN  IF normalized \in DOMAIN _skill_variations
        THEN ResolvedEntity(original, _skill_variations[normalized], "SKILL",
                            Rat(1, 1), TRUE)
        ELSE IF normalized \in DOMAIN _skill_lookup
        THEN ResolvedEntity(original, _skill_lookup[normalized], "SKILL",
                            Rat(1, 1), TRUE)
        ELSE IF match.found /\ RatLeq(Rat(self.fuzzy_threshold, 1), match.score)
        THEN ResolvedEntity(original, _skill_lookup[match.choice], "SKILL",
                            Rat(match.score[1], match.score[2] * 100), TRUE)
        ELSE IF self.strict_mode
        THEN ResolvedEntity(original, Title(original), "SKILL", Rat(0, 1), FALSE)
        ELSE ResolvedEntity(original, _clean_entity_name(original), "SKILL",
                            Rat(1, 2), FALSE)

\* The canonical companies (lines 185-193)
CANONICAL_COMPANIES ==
    {"Google", "Amazon", "Microsoft", "Apple", "Meta", "Facebook", "Netflix",
     "Tesla", "Uber", "Airbnb", "Salesforce", "Oracle", "IBM", "Intel",
     "Adobe", "Nvidia", "PayPal", "Shopify", "Stripe", "Twilio", "Zoom",
     "Slack", "Spotify", "LinkedIn", "Twitter", "X", "TikTok", "ByteDance",
     "Alibaba", "Tencent", "Samsung", "Sony", "Cisco", "VMware", "Dell",
     "HP", "Accenture", "Deloitte", "McKinsey", "BCG", "Bain", "Goldman Sachs",
     "Morgan Stanley", "JPMorgan", "Bank of America", "Citadel", "Jane Street"}

\* The items of COMPANY_VARIATIONS (lines 195-210)
COMPANY_VARIATIONS_items ==
    {<<"fb", "Meta">>, <<"facebook", "Meta">>, <<"facebook inc", "Meta">>,
     <<"meta platforms", "Meta">>, <<"google inc", "Google">>,
     <<"google llc", "Google">>, <<"alphabet", "Google">>,
     <<"amazon.com", "Amazon">>, <<"amazon inc", "Amazon">>,
     <<"msft", "Microsoft">>, <<"microsoft corp", "Microsoft">>,
     <<"apple inc", "Apple">>, <<"x corp", "X">>, <<"twitter inc", "Twitter">>}

COMPANY_VARIATIONS ==
    [k \in {item[1] : item \in COMPANY_VARIATIONS_items} |->
        (CHOOSE item \in COMPANY_VARIATIONS_items : item[1] = k)[2]]

\* self._company_lookup: the canonical company of each lower-cased name
_company_lookup ==
    [k \in {Lower(c) : c \in CANONICAL_COMPANIES} |->
        CHOOSE c \in CANONICAL_COMPANIES : Lower(c) = k]

\* self._company_variations: the variations with lower-cased keys
_company_variations ==
    [k \in {Lower(v) : v \in DOMAIN COMPANY_VARIATIONS} |->
        COMPANY_VARIATIONS[CHOOSE v \in DOMAIN COMPANY_VARIATIONS : Lower(v) = k]]

\* The suffixes resolve_company removes, in the order of the loop (line 333)
company_suffixes ==
    <<" inc", " inc.", " llc", " ltd", " corp", " corporation", " co",
      " company">>

\* The for loop of lines 333-335 from suffix i on
RECURSIVE RemoveSuffixes(_, _)
RemoveSuffixes(normalized, i) ==
    IF i > Len(company_suffixes) THEN normalized
    ELSE IF EndsWith(normalized, company_suffixes[i])
    THEN RemoveSuffixes(
             Strip(SubSeq(normalized, 1,
                          Len(normalized) - Len(company_suffixes[i]))),
             i + 1)
    ELSE RemoveSuffixes(normalized, i + 1)

\* normalized of resolve_company(company) after line 335
CompanyKey(company) == RemoveSuffixes(Lower(Strip(company)), 1)

\* resolve_company that takes the best fuzzy match whatever its score
resolve_company_NoThreshold(self, company, match) ==
    LET original == Strip(company)
        normalized == CompanyKey(company)
    IN  IF normalized \in DOMAIN _company_variations
        THEN ResolvedEntity(original, _company_variations[normalized],
                            "COMPANY", Rat(1, 1), TRUE)
        ELSE IF normalized \in DOMAIN _company_lookup
        THEN ResolvedEntity(original, _company_lookup[normalized], "COMPANY",
                            Rat(1, 1), TRUE)
        ELSE IF match.found
        THEN ResolvedEntity(original, _company_lookup[match.choice], "COMPANY",
                            Rat(match.score[1], match.score[2] * 100), TRUE)
        ELSE ResolvedEntity(original, _clean_entity_name(original), "COMPANY",
                            Rat(1, 2), FALSE)

\* EntityResolver.resolve_company(company) when extractOne returns match
resolve_company(self, company, match) ==
    LET original == Strip(company)
        normalized == CompanyKey(company)
    IN  IF normalized \in DOMAIN _company_variations
        THEN ResolvedEntity(original, _company_variations[normalized],
                            "COMPANY", Rat(1, 1), TRUE)
        ELSE IF normalized \in DOMAIN _company_lookup
        THEN ResolvedEntity(original, _company_lookup[normalized], "COMPANY",
                            Rat(1, 1), TRUE)
        ELSE IF match.found /\ RatLeq(Rat(self.fuzzy_threshold, 1), match.score)
        THEN ResolvedEntity(original, _company_lookup[match.choice], "COMPANY",
                            Rat(match.score[1], match.score[2] * 100), TRUE)
        ELSE ResolvedEntity(original, _clean_entity_name(original), "COMPANY",
                            Rat(1, 2), FALSE)

\* The members of RelationType (lines 33-41)
RelationType ==
    {"HAS_SKILL", "WORKED_AT", "HAS_ROLE", "LOCATED_IN", "HAS_CERTIFICATION",
     "HAS_EDUCATION", "WORKED_WITH"}

\* The items of rel_mappings (lines 436-450)
rel_mappings_items ==
    {<<"WORKS_AT", "WORKED_AT">>, <<"EMPLOYED_AT", "WORKED_AT">>,
     <<"KNOWS", "HAS_SKILL">>, <<"USES", "HAS_SKILL">>,
     <<"SKILLED_IN", "HAS_SKILL">>, <<"HAS_EXPERIENCE", "HAS_SKILL">>,
     <<"WORKS_AS", "HAS_ROLE">>, <<"POSITION", "HAS_ROLE">>,
     <<"CERTIFIED_IN", "HAS_CERTIFICATION">>, <<"LIVES_IN", "LOCATED_IN">>,
     <<"BASED_IN", "LOCATED_IN">>, <<"STUDIED_AT", "HAS_EDUCATION">>,
     <<"GRADUATED_FROM", "HAS_EDUCATION">>}

rel_mappings ==
    [k \in {item[1] : item \in rel_mappings_items} |->
        (CHOOSE item \in rel_mappings_items : item[1] = k)[2]]

\* s.replace(old, new) for a one-character old
RECURSIVE ReplaceChar(_, _, _)
ReplaceChar(s, old, new) ==
    IF Len(s) <= 1 THEN (IF s = old THEN new ELSE s)
    ELSE LET half == Len(s) \div 2
         IN  ReplaceChar(SubSeq(s, 1, half), old, new)
                 \o ReplaceChar(SubSeq(s, half + 1, Len(s)), old, new)

\* rel_type.upper().replace(" ", "_").replace("-", "_")  (line 433)
NormalizedRelType(rel_type) ==
    ReplaceChar(ReplaceChar(Upper(rel_type), " ", "_"), "-", "_")

\* validate_relationship_type without the look-up in rel_mappings
validate_relationship_type_NoMappings(rel_type) ==
    LET normalized == NormalizedRelType(rel_type)
    IN  IF normalized \in RelationType
        THEN <<TRUE, normalized>>
        ELSE <<FALSE, "HAS_SKILL">>

\* EntityResolver.validate_relationship_type(rel_type): the tuple
\* (is_valid, canonical_type)
validate_relationship_type(rel_type) ==
    LET normalized == NormalizedRelType(rel_type)
        mapped == IF normalized \in DOMAIN rel_mappings
                  THEN rel_mappings[normalized]
                  ELSE normalized
    IN  IF mapped \in RelationType
        THEN <<TRUE, mapped>>
        ELSE <<FALSE, "HAS_SKILL">>

---------------------------------------------------------------------------
(* api/routes/analyze.py and api/routes/chat.py: the job-context store     *)

\* An empty dict
EmptyDict == [k \in {} |-> k]

\* not context
IsEmptyDict(d) == DOMAIN d = {}

\* get_job_context(job_id): _job_contexts.get(job_id, {})
get_job_context(contexts, job_id) ==
    IF job_id \in DOMAIN contexts THEN contexts[job_id] ELSE EmptyDict

\* store_job_context(job_id, context): _job_contexts[job_id] = context
store_job_context(contexts, job_id, context) ==
    [k \in DOMAIN contexts \cup {job_id} |->
        IF k = job_id THEN context ELSE contexts[k]]

\* del _job_contexts[job_id]
DelItem(contexts, job_id) ==
    [k \in DOMAIN contexts \ {job_id} |-> contexts[k]]

\* The dict analyze_job stores (lines 154-160); created_at is left out
JobContext(query, cands, raw, top_k) ==
    [query |-> query, candidates |-> cands, raw_context |-> raw,
     top_k |-> top_k]

\* What a handler answers: the status code, and _job_contexts afterwards
Answer(status, body, contexts) ==
    [status |-> status, body |-> body, contexts |-> contexts]

\* analyze_job (lines 57-172) from the answer of rag.aquery on: an
\* exception anywhere gives 500, no raw context gives an empty response,
\* and otherwise the context is stored under request.job_id.
analyze_job(contexts, request, outcome) ==
    IF outcome.raises
    THEN Answer(500, outcome.error, contexts)
    ELSE IF ~Truthy(outcome.raw_context)
    THEN Answer(200, [job_id |-> request.job_id, candidates_found |-> 0,
                      candidates |-> <<>>], contexts)
    ELSE Answer(200, [job_id |-> request.job_id,
                      candidates_found |-> Len(outcome.candidates),
                      candidates |-> outcome.candidates],
                store_job_context(contexts, request.job_id,
                                  JobContext(request.query, outcome.candidates,
                                             outcome.raw_context,
                                             request.top_k)))

\* get_job_analysis(job_id) (lines 442-461)
get_job_analysis(contexts, job_id) ==
    LET context == get_job_context(contexts, job_id)
    IN  IF IsEmptyDict(context)
        THEN Answer(404, "Job analysis not found: " \o job_id, contexts)
        ELSE Answer(200, [job_id |-> job_id, query |-> context.query,
                          candidates_found |-> Len(context.candidates),
                          candidates |-> context.candidates], contexts)

\* delete_job_analysis that answers without deleting
delete_job_analysis_KeepsContext(contexts, job_id) ==
    IF job_id \in DOMAIN contexts
    THEN Answer(200, "Job analysis deleted: " \o job_id, contexts)
    ELSE Answer(404, "Job analysis not found: " \o job_id, contexts)

\* delete_job_analysis(job_id) (lines 464-476)
delete_job_analysis(contexts, job_id) ==
    IF job_id \in DOMAIN contexts
    THEN Answer(200, "Job analysis deleted: " \o job_id,
                DelItem(contexts, job_id))
    ELSE Answer(404, "Job analysis not found: " \o job_id, contexts)

\* chat_about_job(request) (chat.py lines 29-96) when
\* chat_with_dual_retrieval ends with outcome
chat_about_job(contexts, request, outcome) ==
    LET job_context == get_job_context(contexts, request.job_id)
    IN  IF IsEmptyDict(job_context)
        THEN Answer(404, "Job not found: " \o request.job_id
                             \o ". Please run /analyze first.", contexts)
        ELSE IF outcome.raises
        THEN Answer(500, outcome.error, contexts)
        ELSE Answer(200, outcome.response, contexts)

---------------------------------------------------------------------------
(* The states in which nothing is being called                             *)

\* No request is being served.
ServiceIdle ==
    /\ fb_pc = "idle"
    /\ preferred_mode = ""
    /\ fallback_chain = <<>>
    /\ mode_idx = 0
    /\ sources = InitialSources
    /\ rag_result = NoResult
    /\ backend_calls = <<>>
    /\ chat_pc = "idle"
    /\ chat_mode = ""
    /\ candidates = <<>>
    /\ raw_context = None
    /\ grounded_response = None
    /\ validated = {}
    /\ chat_result = NoChatResult

\* validate_grounded_response has not returned yet.
NoVerdict == [valid |-> FALSE, reason |-> None]

ValidatorIdle ==
    /\ val_response = None
    /\ val_context = None
    /\ val_result = NoVerdict

FilterIdle ==
    /\ pr_pc = "idle"
    /\ pr_reranked = <<>>
    /\ pr_top_k = 0
    /\ pr_job_query = ""
    /\ pr_hash_seed = 1
    /\ pr_result = <<>>

\* The hybrid_search calls that may run side by side
Calls == {1, 2}

\* The arguments of a call that was not made
NoArgs ==
    [query |-> "", documents |-> <<>>, vector_scores |-> <<>>, top_k |-> 0,
     bm25_weight |-> 0, vector_weight |-> 0, graph_weight |-> 0,
     graph_bonus |-> NoGraphBonus]

NoSearch ==
    [called |-> FALSE, query |-> "", top_k |-> 0, scores |-> <<>>,
     results |-> <<>>]

\* No hybrid_search call is made.
NoHybridCalls ==
    /\ hs_pc = [c \in Calls |-> "idle"]
    /\ hs_args = [c \in Calls |-> NoArgs]
    /\ hs_bm25_results = [c \in Calls |-> <<>>]
    /\ hs_searched = [c \in Calls |-> <<>>]
    /\ hs_results = [c \in Calls |-> <<>>]

\* The module is loaded: _bm25_index = None, which get_bm25_index turns
\* into BM25Index() on its first call.
LexicalIdle ==
    /\ bm25_index = NewIndex
    /\ bm_last = NoSearch
    /\ NoHybridCalls

NoResolution ==
    [called |-> FALSE, skill |-> "",
     result |-> ResolvedEntity("", "", "SKILL", Rat(0, 1), FALSE)]

NoCompanyResolution ==
    [called |-> FALSE, company |-> "",
     result |-> ResolvedEntity("", "", "COMPANY", Rat(0, 1), FALSE)]

NoValidation == [called |-> FALSE, rel_type |-> "", result |-> <<FALSE, "">>]

\* get_entity_resolver() has made EntityResolver(); nothing is resolved.
ResolverIdle ==
    /\ resolver = EntityResolver(DEFAULT_FUZZY_THRESHOLD, FALSE)
    /\ rs_last = NoResolution
    /\ rs_again = NoResolution
    /\ rc_last = NoCompanyResolution
    /\ rc_again = NoCompanyResolution
    /\ vr_last = NoValidation

NoRequest ==
    [called |-> FALSE, route |-> "", job_id |-> "", before |-> EmptyDict,
     status |-> 0]

\* api/routes/analyze.py is loaded: _job_contexts = {}; no request came.
StoreIdle ==
    /\ _job_contexts = EmptyDict
    /\ js_last = NoRequest

---------------------------------------------------------------------------
(* BM25Index used on its own, and hybrid_search                            *)

\* The most documents in one batch
MaxDocs == 2

\* documents of a call; analyze_job calls only with a non-empty list.
DocumentLists == ListsOf(DocTexts, MaxDocs) \ {<<>>}

\* bm25_index.build_index(documents)
IndexBuild(documents) ==
    /\ bm25_index' = build_index(documents)
    /\ UNCHANGED <<bm_last, hs_pc, hs_args, hs_bm25_results, hs_searched,
                   hs_results>>
    /\ UNCHANGED <<fb_vars, chat_vars, validator_vars, filter_vars, resolver_vars,
                   store_vars>>

\* bm25_index.search(query, top_k)
IndexSearch(query, top_k) ==
    /\ \E scores \in ScoresFor(bm25_index, query) :
          bm_last' = [called |-> TRUE, query |-> query, top_k |-> top_k,
                      scores |-> scores,
                      results |-> search(bm25_index, query, top_k, scores)]
    /\ UNCHANGED <<bm25_index, hs_pc, hs_args, hs_bm25_results, hs_searched,
                   hs_results>>
    /\ UNCHANGED <<fb_vars, chat_vars, validator_vars, filter_vars, resolver_vars,
                   store_vars>>

LexicalInit ==
    /\ ServiceIdle
    /\ ValidatorIdle
    /\ FilterIdle
    /\ LexicalIdle
    /\ ResolverIdle
    /\ StoreIdle

LexicalNext ==
    \/ \E documents \in DocumentLists : IndexBuild(documents)
    \/ \E query \in SearchQueries, top_k \in 0..(MaxDocs + 1) :
          IndexSearch(query, top_k)

LexicalSpec == LexicalInit /\ [][LexicalNext]_vars

\* Vector scores of a call
VectorValues == {1, 3}

\* vector_scores for n documents: one score short, aligned, one too many
VectorScoreLists(n) ==
    {l \in ListsOf(VectorValues, n + 1) : Len(l) >= n - 1}

\* bm25_weight, vector_weight, graph_weight in tenths; each triple sums
\* to 1.0.
WeightTriples ==
    {<<3, 5, 2>>, <<4, 3, 3>>, <<10, 0, 0>>, <<0, 0, 10>>, <<15, -5, 0>>,
     <<5, 10, -5>>}

\* graph_bonus for n documents: None, an aligned list, a list one short
GraphBonuses(n) ==
    {NoGraphBonus}
        \cup {GraphBonus([k \in 1..n |-> g]) : g \in {5, 10}}
        \cup {GraphBonus([k \in 1..(n - 1) |-> 10])}

HybridArgs ==
    {[query |-> q, documents |-> d, vector_scores |-> v, top_k |-> t,
      bm25_weight |-> w[1], vector_weight |-> w[2], graph_weight |-> w[3],
      graph_bonus |-> g] :
        <<q, d, v, t, w, g>> \in
            {x \in SearchQueries \X DocumentLists
                     \X ListsOf(VectorValues, MaxDocs + 1) \X (1..MaxDocs)
                     \X WeightTriples
                     \X UNION {GraphBonuses(n) : n \in 1..MaxDocs} :
                /\ x[3] \in VectorScoreLists(Len(x[2]))
                /\ x[6] \in GraphBonuses(Len(x[2]))}}

\* Lines 174-175: get_bm25_index() and build_index(documents)
HsBuildIndex(c) ==
    /\ hs_pc[c] = "called"
    /\ hs_pc' = [hs_pc EXCEPT ![c] = "built"]
    /\ bm25_index' = build_index(hs_args[c].documents)
    /\ UNCHANGED <<bm_last, hs_args, hs_bm25_results, hs_searched, hs_results>>
    /\ UNCHANGED <<fb_vars, chat_vars, validator_vars, filter_vars, resolver_vars,
                   store_vars>>

\* Line 178: bm25_index.search(query, top_k=len(documents))
HsSearch(c) ==
    /\ hs_pc[c] = "built"
    /\ hs_pc' = [hs_pc EXCEPT ![c] = "searched"]
    /\ \E scores \in ScoresFor(bm25_index, hs_args[c].query) :
          hs_bm25_results' =
              [hs_bm25_results EXCEPT
                  ![c] = search(bm25_index, hs_args[c].query,
                                Len(hs_args[c].documents), scores)]
    /\ hs_searched' = [hs_searched EXCEPT ![c] = bm25_index.documents]
    /\ UNCHANGED <<bm25_index, bm_last, hs_args, hs_results>>
    /\ UNCHANGED <<fb_vars, chat_vars, validator_vars, filter_vars, resolver_vars,
                   store_vars>>

\* Lines 180-231: the scores are fused and the list is returned.
HsFuse(c) ==
    /\ hs_pc[c] = "searched"
    /\ hs_pc' = [hs_pc EXCEPT ![c] = "returned"]
    /\ hs_results' = [hs_results EXCEPT
                          ![c] = FuseScores(hs_args[c], hs_bm25_results[c])]
    /\ UNCHANGED <<bm25_index, bm_last, hs_args, hs_bm25_results, hs_searched>>
    /\ UNCHANGED <<fb_vars, chat_vars, validator_vars, filter_vars, resolver_vars,
                   store_vars>>

HybridNext ==
    \/ \E c \in Calls : HsBuildIndex(c)
    \/ \E c \in Calls : HsSearch(c)
    \/ \E c \in Calls : HsFuse(c)

\* One hybrid_search call
HybridInit ==
    /\ ServiceIdle
    /\ ValidatorIdle
    /\ FilterIdle
    /\ ResolverIdle
    /\ StoreIdle
    /\ bm25_index = NewIndex
    /\ bm_last = NoSearch
    /\ hs_pc = [c \in Calls |-> IF c = 1 THEN "called" ELSE "idle"]
    /\ \E args \in HybridArgs :
          hs_args = [c \in Calls |-> IF c = 1 THEN args ELSE NoArgs]
    /\ hs_bm25_results = [c \in Calls |-> <<>>]
    /\ hs_searched = [c \in Calls |-> <<>>]
    /\ hs_results = [c \in Calls |-> <<>>]

HybridSpec == HybridInit /\ [][HybridNext]_vars

\* The arguments of two calls made side by side, as analyze_job makes
\* them: aligned vector scores, no graph bonus, the weights 0.4/0.3/0.3.
ParallelArgs ==
    {[query |-> q, documents |-> d, vector_scores |-> [k \in 1..Len(d) |-> 1],
      top_k |-> Len(d), bm25_weight |-> 4, vector_weight |-> 3,
      graph_weight |-> 3, graph_bonus |-> NoGraphBonus] :
        q \in SearchQueries, d \in DocumentLists}

\* Two hybrid_search calls on different document sets, each running in a
\* thread of its own
ParallelInit ==
    /\ ServiceIdle
    /\ ValidatorIdle
    /\ FilterIdle
    /\ ResolverIdle
    /\ StoreIdle
    /\ bm25_index = NewIndex
    /\ bm_last = NoSearch
    /\ hs_pc = [c \in Calls |-> "called"]
    /\ hs_args \in [Calls -> ParallelArgs]
    /\ hs_args[1].documents # hs_args[2].documents
    /\ hs_bm25_results = [c \in Calls |-> <<>>]
    /\ hs_searched = [c \in Calls |-> <<>>]
    /\ hs_results = [c \in Calls |-> <<>>]

ParallelSpec == ParallelInit /\ [][HybridNext]_vars

---------------------------------------------------------------------------
(* The EntityResolver called on its own                                    *)

\* The names the tables know: the keys of the variations and the
\* canonical skills
KnownSpellings == DOMAIN SKILL_VARIATIONS \cup CANONICAL_SKILLS

\* Raw skills that match no table exactly
UnknownSkills ==
    {"Pythonn", "Quantum Basket Weaving", "quantum basket weaving",
     "javascrpt", "kubernets", "machine  learning ops",
     "java        script", "", "  "}

\* The raw skills of the calls: every known name as written, lower-cased,
\* upper-cased and with blanks around it, and the unknown ones
RawSkills ==
    UNION {{k, Lower(k), Upper(k), " " \o Upper(k) \o " ", "\t" \o k \o "\n"} :
              k \in KnownSpellings}
        \cup UnknownSkills

\* The names resolve_skill gives to the unknown skills, which a second
\* call is made with
UnknownSkillNames ==
    UNION {{Title(Strip(s)), _clean_entity_name(Strip(s))} : s \in UnknownSkills}

\* The lower-cased skills that get to step 3
SkillQueries ==
    {Lower(Strip(s)) : s \in RawSkills \cup UnknownSkillNames}
        \ (DOMAIN _skill_variations \cup DOMAIN _skill_lookup)

\* process.extractOne for each skill that gets to step 3
FuzzyMatches ==
    [normalized \in SkillQueries |-> extractOne(normalized, DOMAIN _skill_lookup)]

\* What extractOne may return to resolve_skill(skill)
MatchesFor(skill) ==
    LET normalized == Lower(Strip(skill))
    IN  IF \/ normalized \in DOMAIN _skill_variations
           \/ normalized \in DOMAIN _skill_lookup
        THEN {NoMatch}
        ELSE FuzzyMatches[normalized]

\* The names the company tables know
KnownCompanySpellings == DOMAIN COMPANY_VARIATIONS \cup CANONICAL_COMPANIES

\* Raw companies that match no table exactly
UnknownCompanies ==
    {"Facebok", "Gogle Inc", "Microsft Corporation", "acme rockets",
     "Initech  Systems Ltd", "Globex Co", ""}

\* The raw companies of the calls: every known name as written,
\* lower-cased, upper-cased, with a suffix and with blanks around it, and
\* the unknown ones
RawCompanies ==
    UNION {{k, Lower(k), Upper(k), k \o " Inc", " " \o k \o " LLC "} :
              k \in KnownCompanySpellings}
        \cup UnknownCompanies

\* The names resolve_company gives to the unknown companies
UnknownCompanyNames == {_clean_entity_name(Strip(c)) : c \in UnknownCompanies}

\* The keys that get to step 3 of resolve_company
CompanyQueries ==
    {CompanyKey(c) : c \in RawCompanies \cup UnknownCompanyNames}
        \ (DOMAIN _company_variations \cup DOMAIN _company_lookup)

\* process.extractOne for each company that gets to step 3
CompanyFuzzyMatches ==
    [normalized \in CompanyQueries |->
        extractOne(normalized, DOMAIN _company_lookup)]

\* What extractOne may return to resolve_company(company)
CompanyMatchesFor(company) ==
    LET normalized == CompanyKey(company)
    IN  IF \/ normalized \in DOMAIN _company_variations
           \/ normalized \in DOMAIN _company_lookup
        THEN {NoMatch}
        ELSE CompanyFuzzyMatches[normalized]

\* Relation types no table knows
UnknownRelTypes ==
    {"MANAGES", "reports to", "has skill ", "WORKED_AT!", "HASSKILL", ""}

\* The raw relation types of the calls: every member of RelationType and
\* every key of rel_mappings as written, lower-cased, with blanks and with
\* hyphens, and the unknown ones
RawRelTypes ==
    UNION {{k, Lower(k), ReplaceChar(k, "_", " "),
            ReplaceChar(Lower(k), "_", "-")} :
              k \in RelationType \cup DOMAIN rel_mappings}
        \cup UnknownRelTypes

\* The settings a resolver is made with
FuzzyThresholds == {DEFAULT_FUZZY_THRESHOLD, 100}

\* resolver.resolve_skill(skill) is called and returns.
ResolveSkill(skill) ==
    /\ ~rs_last.called
    /\ rs_last.skill = skill
    /\ \E match \in MatchesFor(skill) :
          rs_last' = [called |-> TRUE, skill |-> skill,
                      result |-> resolve_skill(resolver, skill, match)]
    /\ UNCHANGED <<resolver, rs_again, rc_last, rc_again, vr_last>>
    /\ UNCHANGED <<fb_vars, chat_vars, validator_vars, filter_vars, bm25_vars,
                   store_vars>>

\* resolver.resolve_skill is called with the canonical name the first call
\* returned.
ResolveSkillAgain ==
    /\ rs_last.called
    /\ ~rs_again.called
    /\ LET skill == rs_last.result.canonical
       IN  \E match \in MatchesFor(skill) :
              rs_again' = [called |-> TRUE, skill |-> skill,
                           result |-> resolve_skill(resolver, skill, match)]
    /\ UNCHANGED <<resolver, rs_last, rc_last, rc_again, vr_last>>
    /\ UNCHANGED <<fb_vars, chat_vars, validator_vars, filter_vars, bm25_vars,
                   store_vars>>

\* resolver.resolve_company(company) is called and returns.
ResolveCompany(company) ==
    /\ ~rc_last.called
    /\ rc_last.company = company
    /\ \E match \in CompanyMatchesFor(company) :
          rc_last' = [called |-> TRUE, company |-> company,
                      result |-> resolve_company(resolver, company, match)]
    /\ UNCHANGED <<resolver, rs_last, rs_again, rc_again, vr_last>>
    /\ UNCHANGED <<fb_vars, chat_vars, validator_vars, filter_vars, bm25_vars,
                   store_vars>>

\* resolver.resolve_company is called with the canonical name the first
\* call returned.
ResolveCompanyAgain ==
    /\ rc_last.called
    /\ ~rc_again.called
    /\ LET company == rc_last.result.canonical
       IN  \E match \in CompanyMatchesFor(company) :
              rc_again' = [called |-> TRUE, company |-> company,
                           result |-> resolve_company(resolver, company, match)]
    /\ UNCHANGED <<resolver, rs_last, rs_again, rc_last, vr_last>>
    /\ UNCHANGED <<fb_vars, chat_vars, validator_vars, filter_vars, bm25_vars,
                   store_vars>>

\* resolver.validate_relationship_type(rel_type) is called and returns.
ValidateRelationshipType(rel_type) ==
    /\ ~vr_last.called
    /\ vr_last.rel_type = rel_type
    /\ vr_last' = [called |-> TRUE, rel_type |-> rel_type,
                   result |-> validate_relationship_type(rel_type)]
    /\ UNCHANGED <<resolver, rs_last, rs_again, rc_last, rc_again>>
    /\ UNCHANGED <<fb_vars, chat_vars, validator_vars, filter_vars, bm25_vars,
                   store_vars>>

\* A resolver is made and one of its methods is about to be called.
ResolverInit ==
    /\ ServiceIdle
    /\ ValidatorIdle
    /\ FilterIdle
    /\ LexicalIdle
    /\ StoreIdle
    /\ \E fuzzy_threshold \in FuzzyThresholds, strict_mode \in BOOLEAN :
          resolver = EntityResolver(fuzzy_threshold, strict_mode)
    /\ \/ /\ \E skill \in RawSkills :
                rs_last = [NoResolution EXCEPT !.skill = skill]
          /\ rc_last = [NoCompanyResolution EXCEPT !.company = None]
          /\ vr_last = [NoValidation EXCEPT !.rel_type = None]
       \/ /\ rs_last = [NoResolution EXCEPT !.skill = None]
          /\ \E company \in RawCompanies :
                rc_last = [NoCompanyResolution EXCEPT !.company = company]
          /\ vr_last = [NoValidation EXCEPT !.rel_type = None]
       \/ /\ rs_last = [NoResolution EXCEPT !.skill = None]
          /\ rc_last = [NoCompanyResolution EXCEPT !.company = None]
          /\ \E rel_type \in RawRelTypes :
                vr_last = [NoValidation EXCEPT !.rel_type = rel_type]
    /\ rs_again = NoResolution
    /\ rc_again = NoCompanyResolution

ResolverNext ==
    \/ \E skill \in RawSkills : ResolveSkill(skill)
    \/ ResolveSkillAgain
    \/ \E company \in RawCompanies : ResolveCompany(company)
    \/ ResolveCompanyAgain
    \/ \E rel_type \in RawRelTypes : ValidateRelationshipType(rel_type)

ResolverSpec == ResolverInit /\ [][ResolverNext]_vars

---------------------------------------------------------------------------
(* The routes of the job-context store                                     *)

\* The job ids of the requests
JobIds == {"job-1", "job-2"}

\* The job descriptions of the analyses
StoreQueries == {"Python developer with SQL", "Senior Java engineer"}

\* How the retrieval of an analysis may end: an exception, no raw context,
\* or a raw context with the candidates parsed from it
AnalysisOutcomes ==
    {[raises |-> TRUE, error |-> "connection refused", raw_context |-> None,
      candidates |-> <<>>],
     [raises |-> FALSE, error |-> "", raw_context |-> "", candidates |-> <<>>],
     [raises |-> FALSE, error |-> "", raw_context |-> None,
      candidates |-> <<>>]}
        \cup {[raises |-> FALSE, error |-> "",
               raw_context |-> "Resume: Mark Davis", candidates |-> cands] :
                 cands \in {<<>>, <<"Mark Davis">>}}

\* How chat_with_dual_retrieval may end inside chat_about_job
ChatOutcomes ==
    {[raises |-> TRUE, error |-> "timed out", response |-> ""],
     [raises |-> FALSE, error |-> "", response |-> "Mark Davis knows Python."]}

\* The record of a request: the route, the job id, _job_contexts when it
\* came in, and the status it was answered with
Served(route, job_id, before, status) ==
    [called |-> TRUE, route |-> route, job_id |-> job_id, before |-> before,
     status |-> status]

\* POST /analyze
AnalyzeJob(job_id, query, outcome) ==
    LET answer == analyze_job(_job_contexts,
                              [job_id |-> job_id, query |-> query, top_k |-> 20],
                              outcome)
    IN  /\ _job_contexts' = answer.contexts
        /\ js_last' = Served("POST /analyze", job_id, _job_contexts, answer.status)
        /\ UNCHANGED <<fb_vars, chat_vars, validator_vars, filter_vars,
                       bm25_vars, resolver_vars>>

\* GET /analyze/{job_id}
GetJobAnalysis(job_id) ==
    LET answer == get_job_analysis(_job_contexts, job_id)
    IN  /\ _job_contexts' = answer.contexts
        /\ js_last' = Served("GET /analyze/{job_id}", job_id, _job_contexts,
                             answer.status)
        /\ UNCHANGED <<fb_vars, chat_vars, validator_vars, filter_vars,
                       bm25_vars, resolver_vars>>

\* DELETE /analyze/{job_id}
DeleteJobAnalysis(job_id) ==
    LET answer == delete_job_analysis(_job_contexts, job_id)
    IN  /\ _job_contexts' = answer.contexts
        /\ js_last' = Served("DELETE /analyze/{job_id}", job_id, _job_contexts,
                             answer.status)
        /\ UNCHANGED <<fb_vars, chat_vars, validator_vars, filter_vars,
                       bm25_vars, resolver_vars>>

\* POST /chat/job
ChatAboutJob(job_id, outcome) ==
    LET answer == chat_about_job(_job_contexts,
                                 [job_id |-> job_id, message |-> "Who knows Python?",
                                  mode |-> "mix"],
                                 outcome)
    IN  /\ _job_contexts' = answer.contexts
        /\ js_last' = Served("POST /chat/job", job_id, _job_contexts, answer.status)
        /\ UNCHANGED <<fb_vars, chat_vars, validator_vars, filter_vars,
                       bm25_vars, resolver_vars>>

\* The module is loaded: _job_contexts = {}
StoreInit ==
    /\ ServiceIdle
    /\ ValidatorIdle
    /\ FilterIdle
    /\ LexicalIdle
    /\ ResolverIdle
    /\ StoreIdle

StoreNext ==
    \/ \E job_id \in JobIds, query \in StoreQueries, outcome \in AnalysisOutcomes :
          AnalyzeJob(job_id, query, outcome)
    \/ \E job_id \in JobIds : GetJobAnalysis(job_id)
    \/ \E job_id \in JobIds : DeleteJobAnalysis(job_id)
    \/ \E job_id \in JobIds, outcome \in ChatOutcomes : ChatAboutJob(job_id, outcome)

StoreSpec == StoreInit /\ [][StoreNext]_vars

---------------------------------------------------------------------------
(* parse_reranked_to_candidates called on its own                          *)

\* parse_reranked_to_candidates(reranked, top_k, job_query) runs from its
\* first line to its return.
ParseRerankedToCandidates ==
    /\ pr_pc = "called"
    /\ pr_pc' = "returned"
    /\ pr_result' = parse_reranked_to_candidates(pr_reranked, pr_top_k,
                                                 pr_job_query, pr_hash_seed)
    /\ UNCHANGED <<pr_reranked, pr_top_k, pr_job_query, pr_hash_seed>>
    /\ UNCHANGED <<fb_vars, chat_vars, validator_vars, bm25_vars, resolver_vars,
                   store_vars>>

FilterInit ==
    /\ ServiceIdle
    /\ ValidatorIdle
    /\ LexicalIdle
    /\ ResolverIdle
    /\ StoreIdle
    /\ pr_pc = "called"
    /\ pr_reranked \in ListsOf(RerankedItems, MaxItems)
    /\ pr_top_k \in 1..MaxTopK
    /\ pr_job_query \in JobQueries
    /\ pr_hash_seed \in {1, 2}
    /\ pr_result = <<>>

FilterNext == ParseRerankedToCandidates

FilterSpec == FilterInit /\ [][FilterNext]_vars

---------------------------------------------------------------------------
(* validate_grounded_response called on its own                            *)

\* The answers handed to the validator: the LLM answers of the chat flow,
\* an answer without any capitalised name, an upper-case marker and a colon
\* followed by white space.
ValidatorAnswers ==
    Answers \cup {"The best match has 5 years of Python.",
                  "AS AN AI model I think Mark Davis fits",
                  "Here are the candidates: "}

ValidatorContexts ==
    Contexts \cup {"", "Sarah Chen: Java developer\nMark Davis: Python"}

\* validate_grounded_response(response, context) runs from its first line
\* to one of its return statements.
ValidateGroundedResponse ==
    /\ val_response # None
    /\ val_result = NoVerdict
    /\ val_result' = validate_grounded_response(val_response, val_context)
    /\ UNCHANGED <<val_response, val_context>>
    /\ UNCHANGED <<fb_vars, chat_vars, filter_vars, bm25_vars, resolver_vars,
                   store_vars>>

ValidatorInit ==
    /\ ServiceIdle
    /\ FilterIdle
    /\ LexicalIdle
    /\ ResolverIdle
    /\ StoreIdle
    /\ val_response \in ValidatorAnswers
    /\ val_context \in ValidatorContexts
    /\ val_result = NoVerdict

ValidatorNext == ValidateGroundedResponse

ValidatorSpec == ValidatorInit /\ [][ValidatorNext]_vars

---------------------------------------------------------------------------
Init ==
    /\ ServiceIdle
    /\ ValidatorIdle
    /\ FilterIdle
    /\ LexicalIdle
    /\ ResolverIdle
    /\ StoreIdle

Next ==
    \/ \E mode \in Modes : QueryWithFallback(mode)
    \/ \E outcome \in BackendOutcomes : FallbackAttempt(outcome)
    \/ FallbackExhausted
    \/ FallbackReturn
    \/ \E mode \in Modes, cands \in CandidateLists : ChatCall(mode, cands)
    \/ \E outcome \in RawContextOutcomes : ChatRawContext(outcome)
    \/ \E outcome \in LlmOutcomes : ChatGroundedLLM(outcome)
    \/ ChatDualLevelQuery
    \/ ChatReturn

Spec == Init /\ [][Next]_vars

\* The backend is awaited one call at a time and each await ends (the
\* backend answers, fails or times out), so a step that is enabled is taken.
FairSpec ==
    /\ Spec
    /\ WF_vars(\E outcome \in BackendOutcomes : FallbackAttempt(outcome))
    /\ WF_vars(FallbackExhausted)

---------------------------------------------------------------------------
(* Properties                                                              *)

\* The modes rag.aquery was called with by query_with_fallback, in order
InvokedModes == [i \in 1..Len(backend_calls) |-> backend_calls[i].mode]

\* The backend answered with a non-empty response
NonEmpty(outcome) == ~outcome.raises /\ outcome.value \notin {None, ""}

IsPrefix(a, b) == Len(a) <= Len(b) /\ a = SubSeq(b, 1, Len(a))

\* The call followed order: it attempted a prefix of it, went on only after
\* answers that were not non-empty, and ended only at a non-empty answer
\* or at the end of order.
Followed(order) ==
    /\ IsPrefix(InvokedModes, order)
    /\ \A i \in 1..(Len(backend_calls) - 1) : ~NonEmpty(backend_calls[i].outcome)
    /\ fb_pc = "done" =>
          \/ InvokedModes = order
          \/ /\ backend_calls # <<>>
             /\ NonEmpty(backend_calls[Len(backend_calls)].outcome)

\* C1: with a preferred strategy outside the canonical chain,
\* query_with_fallback attempts [preferred] + (mix, hybrid, local, naive) in
\* that order and stops only at the first non-empty response.
C1_PreferredOutsideChainOrder ==
    (fb_pc # "idle" /\ preferred_mode \notin {"mix", "hybrid", "local", "naive"})
    => Followed(<<preferred_mode, "mix", "hybrid", "local", "naive">>)

C1_Witness ==
    /\ fb_pc = "done"
    /\ preferred_mode = "global"
    /\ InvokedModes = <<"global", "mix", "hybrid", "local", "naive">>
    /\ rag_result.mode_used = "naive"

\* C2: the canonical chain is mix, hybrid, local, naive, and with a preferred
\* strategy of the chain query_with_fallback attempts the strategies from
\* the preferred one to the end of the chain in chain order, none before it.
C2_PreferredInChainOrder ==
    /\ FALLBACK_CHAIN = <<"mix", "hybrid", "local", "naive">>
    /\ (fb_pc # "idle" /\ preferred_mode \in {"mix", "hybrid", "local", "naive"})
       => Followed(CASE preferred_mode = "mix" -> <<"mix", "hybrid", "local", "naive">>
                     [] preferred_mode = "hybrid" -> <<"hybrid", "local", "naive">>
                     [] preferred_mode = "local" -> <<"local", "naive">>
                     [] preferred_mode = "naive" -> <<"naive">>)

C2_Witness ==
    /\ fb_pc = "done"
    /\ preferred_mode = "local"
    /\ InvokedModes = <<"local", "naive">>
    /\ rag_result.mode_used = "none"

\* C3: when every attempted strategy returned an empty response or threw,
\* query_with_fallback ends FAILED: mode_used "none", the fixed apology,
\* fallback_used true.
C3_AllFailedIsFailed ==
    (/\ fb_pc \in {"done", "raised"}
     /\ \A i \in 1..Len(backend_calls) : ~NonEmpty(backend_calls[i].outcome))
    => /\ fb_pc = "done"
       /\ InvokedModes = fallback_chain
       /\ rag_result.mode_used = "none"
       /\ rag_result.response =
            "Unable to retrieve relevant information. Please try rephrasing your query."
       /\ rag_result.fallback_used = TRUE

C3_Witness ==
    /\ fb_pc = "done"
    /\ rag_result.mode_used = "none"
    /\ Len(backend_calls) = 4
    /\ \E i, j \in 1..Len(backend_calls) :
          /\ backend_calls[i].outcome.raises
          /\ backend_calls[j].outcome = [raises |-> FALSE, value |-> ""]

\* C4: a non-empty backend response ends the call in success: it is the
\* response of the last and only non-empty attempt, mode_used is its
\* strategy, fallback_used = (mode_used # preferred), nothing follows it.
C4_NonEmptyIsTerminalSuccess ==
    (\E i \in 1..Len(backend_calls) : NonEmpty(backend_calls[i].outcome))
    => LET last == backend_calls[Len(backend_calls)]
       IN  /\ fb_pc = "done"
           /\ NonEmpty(last.outcome)
           /\ \A i \in 1..(Len(backend_calls) - 1) :
                 ~NonEmpty(backend_calls[i].outcome)
           /\ rag_result.response = last.outcome.value
           /\ rag_result.mode_used = last.mode
           /\ rag_result.fallback_used = (last.mode # preferred_mode)

C4_Witness ==
    /\ fb_pc = "done"
    /\ preferred_mode = "hybrid"
    /\ Len(backend_calls) = 2
    /\ NonEmpty(backend_calls[2].outcome)
    /\ rag_result.mode_used = "local"
    /\ rag_result.fallback_used

\* Each backend invocation is the attempt of one entry of the attempt order,
\* and no strategy is invoked twice.
NoRetries ==
    /\ Len(backend_calls) <= Len(fallback_chain)
    /\ \A i \in 1..Len(backend_calls) : backend_calls[i].mode = fallback_chain[i]
    /\ \A i, j \in 1..Len(backend_calls) :
          i # j => backend_calls[i].mode # backend_calls[j].mode

\* C5: within one query_with_fallback call no strategy is invoked more than
\* once, and the call always terminates (success or FAILED) whatever the
\* backend returns or throws.
C5_NoRetriesAndTerminates ==
    /\ [](fb_pc # "idle" => NoRetries)
    /\ (fb_pc = "loop") ~> (fb_pc = "done")

C5_Witness ==
    /\ fb_pc = "done"
    /\ preferred_mode = "mix"
    /\ Len(backend_calls) = 4
    /\ \A i \in 1..4 : backend_calls[i].outcome.raises

\* An attempt was just made and the backend's answer was not non-empty
FailedAttemptStep ==
    /\ Len(backend_calls') = Len(backend_calls) + 1
    /\ ~NonEmpty(backend_calls'[Len(backend_calls')].outcome)

\* C6: an empty response and a thrown exception are treated identically:
\* after either the controller is at the next strategy of the attempt order
\* with no result set, and the exception is never propagated.
C6_EmptyAndThrowAdvance ==
    /\ [][FailedAttemptStep =>
            /\ fb_pc' = "loop"
            /\ mode_idx' = mode_idx + 1
            /\ rag_result' = rag_result
            /\ fallback_chain' = fallback_chain
            /\ sources'.attempted_modes =
                 Append(sources.attempted_modes, fallback_chain[mode_idx])]_vars
    /\ [](fb_pc # "raised")

C6_Witness ==
    /\ fb_pc = "loop"
    /\ mode_idx = 3
    /\ Len(backend_calls) = 2
    /\ backend_calls[1].outcome.raises
    /\ backend_calls[2].outcome = [raises |-> FALSE, value |-> None]

\* C7: the result lists every attempted strategy in attempt order, and for
\* every attempt in which the backend threw it records the error text.
C7_ErrorTextRecorded ==
    fb_pc = "done" =>
        /\ rag_result.srcs.attempted_modes = InvokedModes
        /\ \A i \in 1..Len(backend_calls) :
              backend_calls[i].outcome.raises =>
                  \E j \in 1..Len(rag_result.srcs.errors) :
                      Contains(rag_result.srcs.errors[j],
                               backend_calls[i].outcome.value)

\* chat_with_dual_retrieval returned after validate_grounded_response
\* rejected the LLM's answer
RejectedAnswerReturned ==
    /\ chat_pc = "returned"
    /\ grounded_response \in validated
    /\ ~validate_grounded_response(grounded_response, raw_context).valid

\* C8 as stated: when the validator rejects the answer, the response is not
\* the answer and does not contain it.
C8_ResponseNeverContainsAnswer ==
    RejectedAnswerReturned =>
        /\ chat_result.response # grounded_response
        /\ ~Contains(chat_result.response, grounded_response)

\* C8 amended: when the validator rejects the answer, the response is the
\* fixed safe message followed by the validator's reason; it is never the
\* answer, and it contains the answer only if the answer has fewer than 10
\* characters after trimming.
C8_RejectedAnswerReplaced ==
    RejectedAnswerReturned =>
        /\ chat_result.response # grounded_response
        /\ \E reason \in {"Response too short to be meaningful",
                          "Response appears truncated",
                          "Response contains names not found in resume data",
                          "Response contains self-referential AI statements"} :
              chat_result.response =
                  "Based on the resume data, I found relevant candidates but cannot provide specific details. "
                  \o reason
        /\ Contains(chat_result.response, grounded_response)
              => Len(Strip(grounded_response)) < 10

C8_Witness ==
    /\ RejectedAnswerReturned
    /\ grounded_response = "Sarah Chen my training"
    /\ raw_context = "Mark Davis: Python developer, 5 years"
    /\ chat_result.mode_used = "naive (grounded, validation failed)"

\* The generated answers that the returned response carries: the LLM's
\* answer when it is returned as it is, and the answer query_with_fallback
\* got from the backend.
ReturnedGeneratedAnswers ==
    (IF chat_result.mode_used = "naive (grounded, validated)"
     THEN {chat_result.response} ELSE {})
    \cup (IF fb_pc = "done" /\ rag_result.mode_used # "none"
          THEN {rag_result.response} ELSE {})

\* C9: every generated answer that chat_with_dual_retrieval returns,
\* including one obtained through query_with_fallback, was checked by the
\* Grounding Validator before it is returned.
C9_EveryReturnedAnswerValidated ==
    chat_pc = "returned" => ReturnedGeneratedAnswers \subseteq validated

\* C10: whatever the raw-context retrieval, the grounded LLM call and the
\* fallback strategies return or throw, chat_with_dual_retrieval does not
\* raise and returns a record with response, mode_used and fallback_used.
C10_ChatNeverRaises ==
    /\ chat_pc # "raised"
    /\ chat_pc = "returned" =>
          /\ {"response", "mode_used", "fallback_used"} \subseteq DOMAIN chat_result
          /\ chat_result.response # None
          /\ chat_result.mode_used # ""
          /\ chat_result.fallback_used \in BOOLEAN

C10_Witness ==
    /\ chat_pc = "returned"
    /\ raw_context \in Contexts
    /\ grounded_response = None
    /\ Len(backend_calls) = 4
    /\ \A i \in 1..4 : ~NonEmpty(backend_calls[i].outcome)
    /\ \E i \in 1..4 : backend_calls[i].outcome.raises
    /\ chat_result.mode_used = "none"

\* C11: validate_grounded_response returns valid = false for every answer
\* that ends in ":" and for every answer that contains "as an AI" in any
\* letter case, whatever the context and the rest of the answer are.
C11_ColonAndAsAnAiInvalid ==
    (/\ val_result # NoVerdict
     /\ \/ EndsWith(val_response, ":")
        \/ Contains(Lower(val_response), "as an ai"))
        => ~val_result.valid

\* An answer that names a candidate of the context and says "AS AN AI" has
\* passed the first three checks and is rejected by the fourth.
C11_Witness ==
    /\ val_result = Verdict(FALSE, REASON_SELF_REFERENTIAL)
    /\ Contains(val_response, "AS AN AI")
    /\ NamesGrounded(val_response, val_context)
    /\ normalize_names(val_context) # {}

\* The words of the names that the name pattern finds in a text.
NameWords(text) ==
    UNION {{p \in SplitParts(n) : p # ""} : n \in normalize_names(text)}

\* The answer mentions a context name or one word of a context name.
ReferencesContextName(response, context) ==
    \E w \in NameWords(context) : Contains(Lower(response), w)

\* The answer says that nothing was found.
StatesNoCandidates(response) ==
    \/ Contains(Lower(response), "no candidate")
    \/ Contains(Lower(response), "not find")
    \/ Contains(Lower(response), "cannot provide")

\* C12: when the context contains name-like tokens, an answer that
\* references none of the context names, not even by one shared word, and
\* does not state that no candidates were found, is not valid.
C12_UngroundedAnswerInvalid ==
    (/\ val_result # NoVerdict
     /\ normalize_names(val_context) # {}
     /\ ~ReferencesContextName(val_response, val_context)
     /\ ~StatesNoCandidates(val_response))
        => ~val_result.valid

\* The item of the reranked list an output candidate was built from
SourceItem(c) == pr_reranked[c.index]

\* The skills that the job text and the resume chunk of an item share
SharedSkills(item) ==
    Range(ExtractedSkills[ItemContent(item)])
        \cap Range(ExtractedSkills[pr_job_query])

\* C13: every candidate in the output of parse_reranked_to_candidates has
\* a normalized score of at least 0.30 and either shares a skill with the
\* skills required by the job text or has a normalized score of at least
\* 0.60, also when the job text yields no required skills.
C13_OutputHasEvidenceOrHighScore ==
    pr_pc = "returned" =>
        \A k \in 1..Len(pr_result) :
            /\ pr_result[k].score >= 300
            /\ \/ SharedSkills(SourceItem(pr_result[k])) # {}
               \/ pr_result[k].score >= 600

\* C14: no two output candidates of parse_reranked_to_candidates have
\* names that are equal ignoring case, and each output candidate was built
\* from the earliest input item that carries its name.
C14_FirstOccurrenceOfEachName ==
    pr_pc = "returned" =>
        /\ \A k, l \in 1..Len(pr_result) :
              k # l => Lower(pr_result[k].name) # Lower(pr_result[l].name)
        /\ \A k \in 1..Len(pr_result) :
              /\ pr_result[k].name
                     = ExtractedName[ItemContent(SourceItem(pr_result[k]))]
              /\ \A j \in 1..(pr_result[k].index - 1) :
                    Lower(ExtractedName[ItemContent(pr_reranked[j])])
                        # Lower(pr_result[k].name)

\* A later item with the same name and a higher score was dropped for the
\* earlier one.
C14_Witness ==
    /\ pr_pc = "returned"
    /\ Len(pr_result) = 1
    /\ pr_result[1].index = 1
    /\ pr_result[1].score = 300
    /\ Len(pr_reranked) = 2
    /\ ItemContent(pr_reranked[2]) # ItemContent(pr_reranked[1])
    /\ ExtractedName[ItemContent(pr_reranked[2])] = pr_result[1].name
    /\ NormalizedScore(ItemScore(pr_reranked[2])) = 650

\* C15: the output of parse_reranked_to_candidates is in descending order
\* of final score, and candidates of equal final score are in the order
\* of their items in the reranked list.
C15_SortedDescendingStable ==
    pr_pc = "returned" =>
        \A k, l \in 1..Len(pr_result) :
            k < l =>
                /\ pr_result[k].score >= pr_result[l].score
                /\ pr_result[k].score = pr_result[l].score
                      => pr_result[k].index < pr_result[l].index

\* The third item has the highest score and is first in the output; the
\* first two items tie and follow in their order.
C15_Witness ==
    /\ pr_pc = "returned"
    /\ Len(pr_result) = 3
    /\ pr_result[1].index = 3
    /\ pr_result[2].index = 1
    /\ pr_result[3].index = 2
    /\ pr_result[2].score = pr_result[3].score
    /\ pr_result[1].score > pr_result[2].score

\* C16: BM25Index.search never returns more than top_k results, whatever
\* documents are indexed and whatever the query is, and every result it
\* returns has a score greater than 0.
C16_SearchAtMostTopKPositive ==
    bm_last.called =>
        /\ Len(bm_last.results) <= bm_last.top_k
        /\ \A k \in 1..Len(bm_last.results) : bm_last.results[k].score > 0

\* A search in which two documents scored above 0 and one was asked for
C16_Witness ==
    /\ bm_last.called
    /\ bm_last.top_k = 1
    /\ Cardinality({k \in 1..Len(bm_last.scores) : bm_last.scores[k] > 0}) = 2
    /\ Len(bm_last.results) = 1

\* The weights of call c sum to 1.0 and the graph signal it was given
\* lies in [0,1]; the lexical and the vector signal are normalized by
\* hybrid_search itself.
WeightsSumToOne(c) ==
    hs_args[c].bm25_weight + hs_args[c].vector_weight + hs_args[c].graph_weight = 10

GraphSignalInUnitInterval(c) ==
    \A k \in 1..Len(hs_args[c].graph_bonus.list) :
        hs_args[c].graph_bonus.list[k] \in 0..10

FusedInUnitInterval(c) ==
    \A k \in 1..Len(hs_results[c]) :
        /\ RatLeq(Rat(0, 1), hs_results[c][k].score)
        /\ RatLeq(hs_results[c][k].score, Rat(1, 1))

NoNegativeWeight(c) ==
    /\ hs_args[c].bm25_weight >= 0
    /\ hs_args[c].vector_weight >= 0
    /\ hs_args[c].graph_weight >= 0

\* C17, as the specification states it: for every weight triple that sums
\* to 1.0, the fused score of each document lies in [0,1], given signals
\* in [0,1].
C17_FusedInUnitIntervalForEveryTriple ==
    \A c \in Calls :
        (hs_pc[c] = "returned" /\ WeightsSumToOne(c) /\ GraphSignalInUnitInterval(c))
            => FusedInUnitInterval(c)

\* C17: for every triple of weights none of which is negative and that
\* sums to 1.0, the fused score of each document lies in [0,1], given
\* signals in [0,1].
C17_FusedInUnitInterval ==
    \A c \in Calls :
        (/\ hs_pc[c] = "returned"
         /\ WeightsSumToOne(c)
         /\ NoNegativeWeight(c)
         /\ GraphSignalInUnitInterval(c))
            => FusedInUnitInterval(c)

\* A call with three positive weights returned a document whose three
\* signals are all 1: its fused score is 1.
C17_Witness ==
    \E c \in Calls :
        /\ hs_pc[c] = "returned"
        /\ WeightsSumToOne(c)
        /\ hs_args[c].bm25_weight > 0
        /\ hs_args[c].vector_weight > 0
        /\ hs_args[c].graph_weight > 0
        /\ \E k \in 1..Len(hs_results[c]) : hs_results[c][k].score = Rat(1, 1)

\* C18: a call of hybrid_search whose documents and vector scores differ
\* in number fails; it returns no ranked list.
C18_LengthMismatchIsHardError ==
    \A c \in Calls :
        hs_pc[c] = "returned" =>
            Len(hs_args[c].documents) = Len(hs_args[c].vector_scores)

\* C19: under every interleaving of two hybrid_search calls on different
\* document sets, each call's results hold only its own documents, and its
\* lexical scores were computed from an index of its own documents.
C19_ResultsFromOwnBatch ==
    \A c \in Calls :
        /\ hs_pc[c] \in {"searched", "returned"} =>
               hs_searched[c] = hs_args[c].documents
        /\ \A k \in 1..Len(hs_results[c]) :
               \E d \in 1..Len(hs_args[c].documents) :
                   hs_results[c][k].content = hs_args[c].documents[d]

\* C20: a raw skill that, trimmed and lower-cased, is a key of the
\* variations resolves to the canonical form of that variation, and
\* otherwise one that is the lower-cased name of a canonical skill resolves
\* to that skill; both with confidence 1.0 and is_known true.
C20_ExactMatchResolves ==
    rs_last.called =>
        LET normalized == Lower(Strip(rs_last.skill))
            aliases == {v \in DOMAIN SKILL_VARIATIONS : Lower(v) = normalized}
            names == {s \in CANONICAL_SKILLS : Lower(s) = normalized}
        IN  /\ aliases # {} =>
                /\ \E v \in aliases : rs_last.result.canonical = SKILL_VARIATIONS[v]
                /\ rs_last.result.confidence = Rat(1, 1)
                /\ rs_last.result.is_known
            /\ (aliases = {} /\ names # {}) =>
                /\ rs_last.result.canonical \in names
                /\ rs_last.result.confidence = Rat(1, 1)
                /\ rs_last.result.is_known
            /\ rs_last.skill \in {"js", "JavaScript", "javascript", " JS "} =>
                rs_last.result.canonical = "JavaScript"

\* " JS " was resolved to "JavaScript"
C20_Witness ==
    /\ rs_last.called
    /\ rs_last.skill = " JS "
    /\ rs_last.result.canonical = "JavaScript"
    /\ rs_last.result.confidence = Rat(1, 1)
    /\ rs_last.result.is_known

\* The best fuzzy match among what extractOne may return: the similarity
\* and the canonical entries that reach it
BestMatch(matches, canonical) ==
    [similarity |-> (CHOOSE m \in matches : TRUE).score,
     entries |-> {e \in canonical : \E m \in matches : Lower(e) = m.choice}]

\* The result of a call whose input matched no alias and no canonical name
\* follows the threshold rule for the best fuzzy match.
FollowsThreshold(result, best) ==
    LET accepted == RatLeq(Rat(resolver.fuzzy_threshold, 1), best.similarity)
    IN  /\ result.is_known <=> accepted
        /\ accepted =>
              /\ result.canonical \in best.entries
              /\ result.confidence
                     = Rat(best.similarity[1], best.similarity[2] * 100)

\* C21: for an input with no exact alias or canonical match, the resolver
\* accepts the best fuzzy match against the canonical set exactly when its
\* similarity is at least the configured threshold, and then returns that
\* canonical entry with confidence similarity/100 and is_known true; below
\* the threshold is_known is false.  With the default threshold 85
\* "Pythonn" resolves to "Python" with confidence at least 0.85, and
\* "Quantum Basket Weaving" is unknown.
C21_FuzzyMatchAcceptedAtThreshold ==
    /\ rs_last.called =>
          LET normalized == Lower(Strip(rs_last.skill))
          IN  /\ normalized \notin DOMAIN _skill_variations \cup DOMAIN _skill_lookup
                    => FollowsThreshold(rs_last.result, BestMatch(FuzzyMatches[normalized],
                                                         CANONICAL_SKILLS))
              /\ (rs_last.skill = "Pythonn"
                      /\ resolver.fuzzy_threshold = DEFAULT_FUZZY_THRESHOLD) =>
                    /\ rs_last.result.canonical = "Python"
                    /\ rs_last.result.is_known
                    /\ RatLeq(Rat(85, 100), rs_last.result.confidence)
              /\ rs_last.skill = "Quantum Basket Weaving"
                    => ~rs_last.result.is_known
    /\ rc_last.called =>
          LET normalized == CompanyKey(rc_last.company)
          IN  normalized \notin DOMAIN _company_variations \cup DOMAIN _company_lookup
                  => FollowsThreshold(rc_last.result, BestMatch(CompanyFuzzyMatches[normalized],
                                                         CANONICAL_COMPANIES))

\* "Pythonn" was resolved to "Python" by a fuzzy match at the default
\* threshold.
C21_Witness ==
    /\ rs_last.called
    /\ rs_last.skill = "Pythonn"
    /\ resolver.fuzzy_threshold = DEFAULT_FUZZY_THRESHOLD
    /\ rs_last.result.canonical = "Python"
    /\ rs_last.result.is_known
    /\ rs_last.result.confidence = Rat(12, 13)

\* The result of a call whose input matched nothing in the ontology is as
\* the strict mode of the resolver demands.
UnknownAsConfigured(result) ==
    ~result.is_known =>
        IF resolver.strict_mode
        THEN /\ result.confidence = Rat(0, 1)
             /\ result.canonical = result.original
        ELSE /\ result.confidence = Rat(1, 2)
             /\ result.canonical = Title(Join(" ", Split(result.original)))

\* C22: for a skill or company that matches nothing in the ontology, with
\* strict mode off the resolver returns the title-cased cleaned input with
\* confidence 0.5, and with strict mode on it returns is_known false,
\* confidence 0.0 and a canonical that keeps the casing of the input.
C22_UnknownEntityAsStrictModeDemands ==
    /\ rs_last.called => UnknownAsConfigured(rs_last.result)
    /\ rc_last.called => UnknownAsConfigured(rc_last.result)

\* C23: validate_relationship_type always returns a member of the fixed
\* set of relation types: a known synonym gives its canonical relation and
\* is reported as valid (WORKS_AT gives WORKED_AT), a relation type that is
\* neither a member nor a synonym gives the default HAS_SKILL and is
\* reported as not valid.
C23_RelationTypeAlwaysCanonical ==
    vr_last.called =>
        LET normalized == NormalizedRelType(vr_last.rel_type)
            synonyms == {item \in rel_mappings_items : item[1] = normalized}
        IN  /\ vr_last.result[2] \in RelationType
            /\ vr_last.result[1] \in BOOLEAN
            /\ \A item \in synonyms : vr_last.result = <<TRUE, item[2]>>
            /\ (synonyms = {} /\ normalized \in RelationType)
                  => vr_last.result = <<TRUE, normalized>>
            /\ (synonyms = {} /\ normalized \notin RelationType)
                  => vr_last.result = <<FALSE, "HAS_SKILL">>
            /\ vr_last.rel_type = "WORKS_AT"
                  => vr_last.result = <<TRUE, "WORKED_AT">>

\* "works-at" was mapped to WORKED_AT and reported as valid.
C23_Witness ==
    /\ vr_last.called
    /\ vr_last.rel_type = "works-at"
    /\ vr_last.result = <<TRUE, "WORKED_AT">>

\* The routes that look a job up
LookupRoutes ==
    {"GET /analyze/{job_id}", "DELETE /analyze/{job_id}", "POST /chat/job"}

\* A successful DELETE has just been answered.
Deleted ==
    /\ js_last.called
    /\ js_last.route = "DELETE /analyze/{job_id}"
    /\ js_last.status = 200

\* C24: GET /analyze/{job_id}, DELETE /analyze/{job_id} and chat about a
\* job answer 404 exactly when no analysis is stored under job_id; a
\* successful DELETE removes the context of job_id and leaves the contexts
\* stored under other ids as they were, and the next GET, DELETE or chat
\* for job_id is answered 404.
C24_NotFoundExactlyWhenNothingStored ==
    /\ [](js_last.called /\ js_last.route \in LookupRoutes
            => (js_last.status = 404 <=> js_last.job_id \notin DOMAIN js_last.before))
    /\ [](Deleted =>
            /\ DOMAIN _job_contexts = DOMAIN js_last.before \ {js_last.job_id}
            /\ \A other \in DOMAIN _job_contexts :
                  _job_contexts[other] = js_last.before[other])
    /\ [][(Deleted /\ js_last'.job_id = js_last.job_id
                   /\ js_last'.route \in LookupRoutes)
              => js_last'.status = 404]_vars

\* The analysis of job-1 was deleted while the one of job-2 stayed.
C24_Witness ==
    /\ Deleted
    /\ js_last.job_id = "job-1"
    /\ "job-1" \in DOMAIN js_last.before
    /\ "job-2" \in DOMAIN _job_contexts
    /\ "job-1" \notin DOMAIN _job_contexts

\* The fused score hybrid_search computes for the document at 1-based
\* position i of call c
FusedScore(c, i) == HybridResult(hs_args[c], hs_bm25_results[c], i).score

\* C25: hybrid_search scores every input document, also the documents
\* without a lexical match (lexical signal 0) and without a graph score
\* (graph signal 0), and returns them in non-increasing order of fused
\* score cut to top_k: the result has exactly min(top_k, number of
\* documents) entries, no document index is in it twice, and no document
\* left out has a higher fused score than one that is in it.
C25_AllDocumentsScoredSortedTruncated ==
    \A c \in Calls :
        hs_pc[c] = "returned" =>
            LET args == hs_args[c]
                results == hs_results[c]
                n == Len(args.documents)
                included == {results[k].index + 1 : k \in 1..Len(results)}
            IN  /\ Len(results) = Min({args.top_k, n})
                /\ \A k, l \in 1..Len(results) :
                      k # l => results[k].index # results[l].index
                /\ \A k, l \in 1..Len(results) :
                      k < l => RatLeq(results[l].score, results[k].score)
                /\ included \subseteq 1..n
                /\ \A k \in 1..Len(results) :
                      LET i == results[k].index + 1
                      IN  /\ results[k].content = args.documents[i]
                          /\ results[k].score = FusedScore(c, i)
                          /\ (\A b \in 1..Len(hs_bm25_results[c]) :
                                 hs_bm25_results[c][b].index # i - 1)
                                => results[k].score_breakdown.bm25 = 0
                          /\ args.graph_bonus.is_none
                                => results[k].score_breakdown.graph = 0
                /\ \A i \in (1..n) \ included :
                      \A k \in 1..Len(results) :
                          RatLeq(FusedScore(c, i), results[k].score)

\* Two documents were ranked, one with a lexical match and one without,
\* and no graph scores were given.
C25_Witness ==
    \E c \in Calls :
        /\ hs_pc[c] = "returned"
        /\ hs_args[c].graph_bonus.is_none
        /\ Len(hs_args[c].documents) = 2
        /\ Len(hs_results[c]) = 2
        /\ Len(hs_bm25_results[c]) = 1
        /\ \E k \in 1..2 : hs_results[c][k].score_breakdown.bm25 = 0

\* C26: the normalized score that parse_reranked_to_candidates compares
\* with the thresholds 0.30 and 0.60 lies in [0, 1] for every relevance
\* score, also outside [-10, 10], and it is the score reported on the
\* output candidate.
C26_NormalizedScoreInUnitInterval ==
    /\ \A i \in 1..Len(pr_reranked) :
          NormalizedScore(ItemScore(pr_reranked[i])) \in 0..1000
    /\ pr_pc = "returned" =>
          \A k \in 1..Len(pr_result) :
              /\ pr_result[k].score \in 0..1000
              /\ pr_result[k].score
                     = NormalizedScore(ItemScore(SourceItem(pr_result[k])))

\* A relevance score of 15.0 was reported as 1.0 and one of -15.0 was
\* rejected as 0.0.
C26_Witness ==
    /\ pr_pc = "returned"
    /\ \E k \in 1..Len(pr_result) :
          /\ ItemScore(SourceItem(pr_result[k])) = 150
          /\ pr_result[k].score = 1000
    /\ \E i \in 1..Len(pr_reranked) :
          /\ ItemScore(pr_reranked[i]) = -150
          /\ \A k \in 1..Len(pr_result) : pr_result[k].index # i

\* Item i of the reranked list meets the score and evidence thresholds.
MeetsThresholds(i) ==
    LET content == ItemContent(pr_reranked[i])
        normalized_score == NormalizedScore(ItemScore(pr_reranked[i]))
        skills_matched == SkillsMatched(ExtractedSkills[content],
                                        ExtractedSkills[pr_job_query],
                                        pr_hash_seed)
    IN  /\ normalized_score >= MIN_CONFIDENCE
        /\ \/ Len(skills_matched) >= MIN_SKILLS_FOR_EVIDENCE
           \/ normalized_score >= HIGH_SCORE_THRESHOLD

\* The lower-cased name of item i
ItemName(i) == Lower(ExtractedName[ItemContent(pr_reranked[i])])

\* The output candidates built from items before item i
AcceptedBefore(i) == {k \in 1..Len(pr_result) : pr_result[k].index < i}

\* C27: every input item that meets the score and evidence thresholds and
\* is the first threshold-meeting item with its name (ignoring case) is in
\* the output as long as fewer than top_k candidates were accepted before
\* it; an earlier item of the same name that the thresholds rejected does
\* not suppress it.
C27_RejectedNamesakeDoesNotSuppress ==
    pr_pc = "returned" =>
        \A i \in 1..Len(pr_reranked) :
            (/\ MeetsThresholds(i)
             /\ \A j \in 1..(i - 1) :
                   MeetsThresholds(j) => ItemName(j) # ItemName(i)
             /\ Cardinality(AcceptedBefore(i)) < pr_top_k)
                => \E k \in 1..Len(pr_result) : pr_result[k].index = i

\* C28: parse_reranked_to_candidates never returns more than top_k
\* candidates.
C28_AtMostTopKCandidates ==
    pr_pc = "returned" => Len(pr_result) <= pr_top_k

\* One candidate was asked for and returned although a later item with
\* another name met the thresholds as well.
C28_Witness ==
    /\ pr_pc = "returned"
    /\ pr_top_k = 1
    /\ Len(pr_result) = 1
    /\ \E i \in 1..Len(pr_reranked) :
          /\ i > pr_result[1].index
          /\ MeetsThresholds(i)
          /\ ItemName(i) # Lower(pr_result[1].name)

\* C29: whenever resolve_skill or resolve_company returns is_known true,
\* the canonical it returns is a member of CANONICAL_SKILLS or of
\* CANONICAL_COMPANIES, for alias, exact and fuzzy matches alike.
C29_KnownCanonicalInCanonicalSet ==
    /\ \A call \in {rs_last, rs_again} :
          (call.called /\ call.result.is_known)
              => call.result.canonical \in CANONICAL_SKILLS
    /\ \A call \in {rc_last, rc_again} :
          (call.called /\ call.result.is_known)
              => call.result.canonical \in CANONICAL_COMPANIES

\* "kubernets" was resolved by a fuzzy match to a canonical skill.
C29_Witness ==
    /\ rs_last.called
    /\ rs_last.skill = "kubernets"
    /\ rs_last.result.is_known
    /\ rs_last.result.confidence # Rat(1, 1)
    /\ rs_last.result.canonical = "Kubernetes"

\* C30: resolving the canonical name returned for an input yields that
\* same canonical name again, for resolve_skill and for resolve_company.
C30_CanonicalizationIdempotent ==
    /\ rs_again.called => rs_again.result.canonical = rs_last.result.canonical
    /\ rc_again.called => rc_again.result.canonical = rc_last.result.canonical

=============================================================================
